---- MODULE Spec2Model ----
(***************************************************************************)
(* A model of freertos::Heap4 (src/src/MemMang/Heap4.cpp): the first-fit,  *)
(* address-ordered, coalescing free-list allocator.                        *)
(*                                                                         *)
(* Memory is a map from byte addresses to block headers (BlockLink_t: a    *)
(* link and a size word).  size_t is SizeBits wide: every size computation *)
(* is done modulo 2^SizeBits and the most-significant bit of a size word   *)
(* is the allocation flag, as in the source.                               *)
(***************************************************************************)
EXTENDS Integers, Sequences, FiniteSets, TLC

(* ------------------------------ bounds -------------------------------- *)

\* Width of size_t in bits (the target has 32; the model scales it down).
SizeBits == 8

\* Length in bytes of the buffer handed to the constructor.
BufSize == 88

\* Lowest buffer address tried; the constructor is also run on an unaligned one.
BufBase == 8

\* Cap on xNumberOfSuccessfulAllocations, to keep the state space finite.
MaxAllocs == 4

\* Length in bytes of the buffer of the second heap, the one made by CreateHeap.
OtherBufSize == 56

(* ------------------------- program constants -------------------------- *)

NULL == 0

portBYTE_ALIGNMENT == 8

portBYTE_ALIGNMENT_MASK == portBYTE_ALIGNMENT - 1

\* sizeof(size_t) and sizeof(BlockLink_t *) on the target, in bytes.
SizeofWord == 4

\* sizeof(freertos::BlockLink_t): one pointer and one size_t.
SizeofBlockLink == 2 * SizeofWord

_heap_size_max == 2 ^ SizeBits - 1

_heap_block_allocated_bitmask == 2 ^ (SizeBits - 1)

portMAX_DELAY == _heap_size_max

\* size_t arithmetic wraps.
Wrap(x) == x % (2 ^ SizeBits)

\* x & ~portBYTE_ALIGNMENT_MASK
AlignDown(x) == x - (x % portBYTE_ALIGNMENT)

_size_of_heap_block_linklist_element ==
    AlignDown(SizeofBlockLink + (portBYTE_ALIGNMENT - 1))

_heap_minimum_block_size == Wrap(_size_of_heap_block_linklist_element * 2)

\* HeapMultiplyWillOverflow that never reports an overflow.
HeapMultiplyWillOverflowNever(a, b) == FALSE

HeapMultiplyWillOverflow(a, b) == (a > 0) /\ (b > (_heap_size_max \div a))

HeapAddWillOverflow(a, b) == a > (_heap_size_max - b)

HeapBlockSizeIsValid(size) == size < _heap_block_allocated_bitmask

\* (size & _heap_block_allocated_bitmask) != 0
SizeIsAllocated(size) == size >= _heap_block_allocated_bitmask

\* A block handed out without its allocation mark.
SetAllocatedBitNever(size) == size

\* size | _heap_block_allocated_bitmask
SetAllocatedBit(size) ==
    IF SizeIsAllocated(size) THEN size ELSE size + _heap_block_allocated_bitmask

\* size & ~_heap_block_allocated_bitmask
ClearAllocatedBit(size) == size % _heap_block_allocated_bitmask

(* ------------------------------ memory -------------------------------- *)

\* The buffer addresses the constructor is tried on: aligned and unaligned.
BufAddrs == {BufBase, BufBase + 3}

\* Address of the _head_element member of the Heap4 object (outside the buffer).
HeadAddr == AlignDown(BufBase + 3 + BufSize + portBYTE_ALIGNMENT - 1) + portBYTE_ALIGNMENT

Addrs == (BufBase .. (BufBase + 3 + BufSize)) \cup {HeadAddr}

\* The buffer handed to CreateHeap, and the addresses of the second heap:
\* its buffer and the _head_element member of its own Heap4 object (in the
\* map of a heap, HeadAddr stands for the head member of that heap's object).
OtherBufAddr == HeadAddr + 2 * portBYTE_ALIGNMENT

OtherAddrs == (OtherBufAddr .. (OtherBufAddr + OtherBufSize)) \cup {HeadAddr}

ZeroLink == [next |-> NULL, size |-> 0]

VARIABLES
    mem,                              \* [Addrs -> BlockLink_t]: headers, _head_element included
    _tail_element,                    \* address of the tail sentinel
    xFreeBytesRemaining,
    xMinimumEverFreeBytesRemaining,
    xNumberOfSuccessfulAllocations,
    xNumberOfSuccessfulFrees,
    buffer,                           \* the constructor's arguments, kept for reference
    allocated,                        \* pointers returned by Malloc/Calloc and not yet freed
    last,                             \* the last completed call: operation, argument, result
    task,                             \* per task: where it is in Malloc/Free, and its locals
    uxSchedulerSuspended,             \* the scheduler's suspension depth
    pxCurrentTCB,                     \* the running task
    serial,                           \* the heap as the calls leave it when run one after another
    other,                            \* the second heap, made by CreateHeap over its own buffer
    otherAllocated                    \* pointers returned by the second heap's Malloc, not yet freed

tvars == <<task, uxSchedulerSuspended, pxCurrentTCB, serial>>

ovars == <<other, otherAllocated>>

vars == <<mem, _tail_element, xFreeBytesRemaining, xMinimumEverFreeBytesRemaining,
          xNumberOfSuccessfulAllocations, xNumberOfSuccessfulFrees, buffer,
          allocated, last, task, uxSchedulerSuspended, pxCurrentTCB, serial,
          other, otherAllocated>>

(* ------------------------ InsertBlockIntoFreeList ---------------------- *)

RECURSIVE InsertFindIterator(_, _, _)
\* The for loop: advance while pxIterator->_next_free_block < pxBlockToInsert.
\* NULL is the result when the loop steps onto a null link (which it would
\* then dereference).
InsertFindIterator(m, pxIterator, pxBlockToInsert) ==
    IF pxIterator = NULL
    THEN NULL
    ELSE IF m[pxIterator].next < pxBlockToInsert
         THEN InsertFindIterator(m, m[pxIterator].next, pxBlockToInsert)
         ELSE pxIterator

\* InsertMergeLeft that never merges.
InsertMergeLeftNever(m, pxIterator, pxBlockToInsert) ==
    [mem |-> m, blk |-> pxBlockToInsert]

\* InsertMergeLeft that merges into the block before even across a gap.
InsertMergeLeftAcrossGap(m, pxIterator, pxBlockToInsert) ==
    IF Wrap(pxIterator + m[pxIterator].size) <= pxBlockToInsert
    THEN [mem |-> [m EXCEPT ![pxIterator].size = Wrap(@ + m[pxBlockToInsert].size)],
          blk |-> pxIterator]
    ELSE [mem |-> m, blk |-> pxBlockToInsert]

\* Merge with the block before: returns the memory and the block to go on with.
InsertMergeLeft(m, pxIterator, pxBlockToInsert) ==
    IF Wrap(pxIterator + m[pxIterator].size) = pxBlockToInsert
    THEN [mem |-> [m EXCEPT ![pxIterator].size = Wrap(@ + m[pxBlockToInsert].size)],
          blk |-> pxIterator]
    ELSE [mem |-> m, blk |-> pxBlockToInsert]

\* InsertMergeRight that only links and never merges.
InsertMergeRightNever(m, tail, pxIterator, pxBlockToInsert) ==
    [m EXCEPT ![pxBlockToInsert].next = m[pxIterator].next]

\* InsertMergeRight that adds the next block's size but stays linked to it.
InsertMergeRightKeepsLink(m, tail, pxIterator, pxBlockToInsert) ==
    LET nxt == m[pxIterator].next
    IN  IF Wrap(pxBlockToInsert + m[pxBlockToInsert].size) = nxt
        THEN IF nxt # tail
             THEN [m EXCEPT ![pxBlockToInsert].size = Wrap(@ + m[nxt].size),
                            ![pxBlockToInsert].next = nxt]
             ELSE [m EXCEPT ![pxBlockToInsert].next = tail]
        ELSE [m EXCEPT ![pxBlockToInsert].next = nxt]

\* InsertMergeRight without the test for the tail: a block that ends at the
\* tail takes the tail's size and link.
InsertMergeRightAbsorbsTail(m, tail, pxIterator, pxBlockToInsert) ==
    LET nxt == m[pxIterator].next
    IN  IF Wrap(pxBlockToInsert + m[pxBlockToInsert].size) = nxt
        THEN [m EXCEPT ![pxBlockToInsert].size = Wrap(@ + m[nxt].size),
                       ![pxBlockToInsert].next = m[nxt].next]
        ELSE [m EXCEPT ![pxBlockToInsert].next = nxt]

\* Merge with the block after, or link to it.
InsertMergeRight(m, tail, pxIterator, pxBlockToInsert) ==
    LET nxt == m[pxIterator].next
    IN  IF Wrap(pxBlockToInsert + m[pxBlockToInsert].size) = nxt
        THEN IF nxt # tail
             THEN [m EXCEPT ![pxBlockToInsert].size = Wrap(@ + m[nxt].size),
                            ![pxBlockToInsert].next = m[nxt].next]
             ELSE [m EXCEPT ![pxBlockToInsert].next = tail]
        ELSE [m EXCEPT ![pxBlockToInsert].next = nxt]

\* InsertLink without the test that the block was merged into its predecessor.
InsertLinkAlways(m, pxIterator, pxBlockToInsert) ==
    [m EXCEPT ![pxIterator].next = pxBlockToInsert]

\* The final link of the predecessor to the inserted block.
InsertLink(m, pxIterator, pxBlockToInsert) ==
    IF pxIterator # pxBlockToInsert
    THEN [m EXCEPT ![pxIterator].next = pxBlockToInsert]
    ELSE m

\* Does the insertion of the block dereference a null link?
InsertDerefsNull(m, pxBlockToInsert) ==
    InsertFindIterator(m, HeadAddr, pxBlockToInsert) = NULL

InsertBlockIntoFreeList(m, tail, pxBlockToInsert) ==
    LET it == InsertFindIterator(m, HeadAddr, pxBlockToInsert)
        l  == InsertMergeLeft(m, it, pxBlockToInsert)
        r  == InsertMergeRight(l.mem, tail, it, l.blk)
    IN  IF it = NULL THEN m ELSE InsertLink(r, it, l.blk)

(* ------------------------------ constructor ---------------------------- *)

\* A constructor that rounds the start up without taking the skipped bytes
\* off the length.
Heap4OverKeepsLength(addrs, buf, size) ==
    LET unaligned == (buf % portBYTE_ALIGNMENT) # 0
        start == IF unaligned THEN AlignDown(buf + (portBYTE_ALIGNMENT - 1)) ELSE buf
        xTotalHeapSize == size
        tail == AlignDown(Wrap(Wrap(start + xTotalHeapSize)
                               - _size_of_heap_block_linklist_element))
        first == Wrap(tail - start)
        m0 == [a \in addrs |-> ZeroLink]
    IN  [mem  |-> [m0 EXCEPT ![HeadAddr] = [next |-> start, size |-> 0],
                             ![tail] = [next |-> NULL, size |-> 0],
                             ![start] = [next |-> tail, size |-> first]],
         tail |-> tail,
         free |-> first,
         min  |-> first,
         nalloc |-> 0,
         nfree  |-> 0]

\* Heap4::Heap4(buffer, size): the heap record after construction over zeroed
\* memory; addrs are the addresses of the heap's map.
Heap4Over(addrs, buf, size) ==
    LET unaligned == (buf % portBYTE_ALIGNMENT) # 0
        start == IF unaligned THEN AlignDown(buf + (portBYTE_ALIGNMENT - 1)) ELSE buf
        xTotalHeapSize == IF unaligned THEN Wrap(size - (start - buf)) ELSE size
        tail == AlignDown(Wrap(Wrap(start + xTotalHeapSize)
                               - _size_of_heap_block_linklist_element))
        first == Wrap(tail - start)
        m0 == [a \in addrs |-> ZeroLink]
    IN  [mem  |-> [m0 EXCEPT ![HeadAddr] = [next |-> start, size |-> 0],
                             ![tail] = [next |-> NULL, size |-> 0],
                             ![start] = [next |-> tail, size |-> first]],
         tail |-> tail,
         free |-> first,
         min  |-> first,
         nalloc |-> 0,
         nfree  |-> 0]

\* The process-wide default heap: the static Heap4 over _buffer.
Heap4(buf, size) == Heap4Over(Addrs, buf, size)

\* base::heap::CreateHeap(buffer, size): a further Heap4 over the caller's buffer.
CreateHeap(buf, size) == Heap4Over(OtherAddrs, buf, size)

\* The heap record of the current state.
Heap == [mem |-> mem, tail |-> _tail_element, free |-> xFreeBytesRemaining,
         min |-> xMinimumEverFreeBytesRemaining,
         nalloc |-> xNumberOfSuccessfulAllocations,
         nfree |-> xNumberOfSuccessfulFrees]

(* --------------------------------- Malloc ------------------------------ *)

\* MallocAdjust that adjusts a request of 0 bytes like any other.
MallocAdjustAlways(xWantedSize) ==
    LET xAdditionalRequiredSize ==
            Wrap(_size_of_heap_block_linklist_element + portBYTE_ALIGNMENT
                 - (xWantedSize % portBYTE_ALIGNMENT))
    IN  IF ~HeapAddWillOverflow(xWantedSize, xAdditionalRequiredSize)
        THEN xWantedSize + xAdditionalRequiredSize
        ELSE 0

\* MallocAdjust without the overflow test: the sum wraps around.
MallocAdjustWraps(xWantedSize) ==
    IF xWantedSize > 0
    THEN Wrap(xWantedSize + Wrap(_size_of_heap_block_linklist_element + portBYTE_ALIGNMENT
                                 - (xWantedSize % portBYTE_ALIGNMENT)))
    ELSE xWantedSize

\* MallocAdjust without the alignment padding.
MallocAdjustNoPadding(xWantedSize) ==
    IF xWantedSize > 0
    THEN IF ~HeapAddWillOverflow(xWantedSize, _size_of_heap_block_linklist_element)
         THEN xWantedSize + _size_of_heap_block_linklist_element
         ELSE 0
    ELSE xWantedSize

\* MallocAdjust that assigns the additional size instead of adding it.
MallocAdjustAssigns(xWantedSize) ==
    IF xWantedSize > 0
    THEN LET xAdditionalRequiredSize ==
                 Wrap(_size_of_heap_block_linklist_element + portBYTE_ALIGNMENT
                      - (xWantedSize % portBYTE_ALIGNMENT))
         IN  IF ~HeapAddWillOverflow(xWantedSize, xAdditionalRequiredSize)
             THEN xAdditionalRequiredSize
             ELSE 0
    ELSE xWantedSize

\* MallocAdjust that pads a request only when it is not a multiple of the
\* alignment.
MallocAdjustTightPadding(xWantedSize) ==
    IF xWantedSize > 0
    THEN LET xAdditionalRequiredSize ==
                 Wrap(_size_of_heap_block_linklist_element
                      + ((portBYTE_ALIGNMENT - (xWantedSize % portBYTE_ALIGNMENT))
                         % portBYTE_ALIGNMENT))
         IN  IF ~HeapAddWillOverflow(xWantedSize, xAdditionalRequiredSize)
             THEN xWantedSize + xAdditionalRequiredSize
             ELSE 0
    ELSE xWantedSize

\* The size adjustment: header plus alignment padding, 0 on overflow.
MallocAdjust(xWantedSize) ==
    IF xWantedSize > 0
    THEN LET xAdditionalRequiredSize ==
                 Wrap(_size_of_heap_block_linklist_element + portBYTE_ALIGNMENT
                      - (xWantedSize % portBYTE_ALIGNMENT))
         IN  IF ~HeapAddWillOverflow(xWantedSize, xAdditionalRequiredSize)
             THEN xWantedSize + xAdditionalRequiredSize
             ELSE 0
    ELSE xWantedSize

RECURSIVE MallocSearchLastFit(_, _, _, _)
\* A search that goes on while a later block fits as well.
MallocSearchLastFit(m, pxPreviousBlock, pxBlock, want) ==
    IF m[pxBlock].next # NULL
       /\ (m[pxBlock].size < want \/ m[m[pxBlock].next].size >= want)
    THEN MallocSearchLastFit(m, pxBlock, m[pxBlock].next, want)
    ELSE [prev |-> pxPreviousBlock, blk |-> pxBlock]

RECURSIVE MallocSearchSkipsExact(_, _, _, _)
\* A search that passes over a block of exactly the wanted size.
MallocSearchSkipsExact(m, pxPreviousBlock, pxBlock, want) ==
    IF m[pxBlock].size <= want /\ m[pxBlock].next # NULL
    THEN MallocSearchSkipsExact(m, pxBlock, m[pxBlock].next, want)
    ELSE [prev |-> pxPreviousBlock, blk |-> pxBlock]

RECURSIVE MallocSearch(_, _, _, _)
\* The while loop: first block with _size >= wanted, or the list's last node.
MallocSearch(m, pxPreviousBlock, pxBlock, want) ==
    IF m[pxBlock].size < want /\ m[pxBlock].next # NULL
    THEN MallocSearch(m, pxBlock, m[pxBlock].next, want)
    ELSE [prev |-> pxPreviousBlock, blk |-> pxBlock]

\* A split decision that splits off any leftover at all.
MallocSplitsAny(blockSize, want) == Wrap(blockSize - want) > 0

\* A split decision that also splits off a leftover of exactly the
\* minimum block size.
MallocSplitsAtMinimum(blockSize, want) ==
    Wrap(blockSize - want) >= _heap_minimum_block_size

\* Is the found block split in two?
MallocSplits(blockSize, want) == Wrap(blockSize - want) > _heap_minimum_block_size

\* MallocSplit that forgets to shrink the block handed out.
MallocSplitKeepsSize(m, tail, pxBlock, want) ==
    LET pxNewBlockLink == Wrap(pxBlock + want)
    IN  InsertBlockIntoFreeList(
            [m EXCEPT ![pxNewBlockLink].size = Wrap(m[pxBlock].size - want)],
            tail, pxNewBlockLink)

\* MallocSplit that takes a header off the size of the block split off.
MallocSplitShortRemainder(m, tail, pxBlock, want) ==
    LET pxNewBlockLink == Wrap(pxBlock + want)
    IN  InsertBlockIntoFreeList(
            [m EXCEPT ![pxNewBlockLink].size =
                          Wrap(m[pxBlock].size - want - _size_of_heap_block_linklist_element),
                      ![pxBlock].size = want],
            tail, pxNewBlockLink)

\* The split: a new free block after the first want bytes of pxBlock, which
\* is shrunk to want; the new block goes into the free list.
MallocSplit(m, tail, pxBlock, want) ==
    LET pxNewBlockLink == Wrap(pxBlock + want)
    IN  InsertBlockIntoFreeList(
            [m EXCEPT ![pxNewBlockLink].size = Wrap(m[pxBlock].size - want),
                      ![pxBlock].size = want],
            tail, pxNewBlockLink)

\* MallocTake with the free bytes charged before the split instead of after it.
MallocTakeChargeFirst(h, pxPreviousBlock, pxBlock, want) ==
    LET m1 == [h.mem EXCEPT ![pxPreviousBlock].next = h.mem[pxBlock].next]
        split == Wrap(m1[pxBlock].size - want) > _heap_minimum_block_size
        free == Wrap(h.free - m1[pxBlock].size)
        m2 == IF split
              THEN InsertBlockIntoFreeList(
                       [m1 EXCEPT ![Wrap(pxBlock + want)].size = Wrap(m1[pxBlock].size - want),
                                  ![pxBlock].size = want],
                       h.tail, Wrap(pxBlock + want))
              ELSE m1
    IN  [heap |-> [h EXCEPT !.mem = [m2 EXCEPT ![pxBlock].size = SetAllocatedBit(@),
                                               ![pxBlock].next = NULL],
                            !.free = free,
                            !.min = IF free < h.min THEN free ELSE h.min,
                            !.nalloc = h.nalloc + 1],
         ret |-> Wrap(pxBlock + _size_of_heap_block_linklist_element),
         asserted |-> split /\ (Wrap(pxBlock + want) % portBYTE_ALIGNMENT) # 0]

\* MallocTake that never lowers xMinimumEverFreeBytesRemaining.
MallocTakeNoLowWater(h, pxPreviousBlock, pxBlock, want) ==
    LET m1 == [h.mem EXCEPT ![pxPreviousBlock].next = h.mem[pxBlock].next]
        split == MallocSplits(m1[pxBlock].size, want)
        m2 == IF split THEN MallocSplit(m1, h.tail, pxBlock, want) ELSE m1
        free == Wrap(h.free - m2[pxBlock].size)
    IN  [heap |-> [h EXCEPT !.mem = [m2 EXCEPT ![pxBlock].size = SetAllocatedBit(@),
                                               ![pxBlock].next = NULL],
                            !.free = free,
                            !.nalloc = h.nalloc + 1],
         ret |-> Wrap(pxBlock + _size_of_heap_block_linklist_element),
         asserted |-> split /\ (Wrap(pxBlock + want) % portBYTE_ALIGNMENT) # 0]

\* Unlink the found block, split it if it is larger than required, charge
\* it, mark it allocated.
MallocTake(h, pxPreviousBlock, pxBlock, want) ==
    LET m1 == [h.mem EXCEPT ![pxPreviousBlock].next = h.mem[pxBlock].next]
        split == MallocSplits(m1[pxBlock].size, want)
        m2 == IF split THEN MallocSplit(m1, h.tail, pxBlock, want) ELSE m1
        free == Wrap(h.free - m2[pxBlock].size)
    IN  [heap |-> [h EXCEPT !.mem = [m2 EXCEPT ![pxBlock].size = SetAllocatedBit(@),
                                               ![pxBlock].next = NULL],
                            !.free = free,
                            !.min = IF free < h.min THEN free ELSE h.min,
                            !.nalloc = h.nalloc + 1],
         ret |-> Wrap(pxBlock + _size_of_heap_block_linklist_element),
         asserted |-> split /\ (Wrap(pxBlock + want) % portBYTE_ALIGNMENT) # 0]

\* Malloc that counts the allocation whether or not a block was found.
MallocCountsAttempts(h, xWantedSize) ==
    LET want == MallocAdjust(xWantedSize)
        fail == [heap |-> [h EXCEPT !.nalloc = h.nalloc + 1], ret |-> NULL,
                 asserted |-> FALSE, sections |-> 1]
    IN  IF HeapBlockSizeIsValid(want)
        THEN IF (want > 0) /\ (want <= h.free)
             THEN LET s == MallocSearch(h.mem, HeadAddr, h.mem[HeadAddr].next, want)
                  IN  IF s.blk # h.tail
                      THEN LET t == MallocTake(h, s.prev, s.blk, want)
                           IN  [heap |-> t.heap, ret |-> t.ret,
                                asserted |-> t.asserted
                                               \/ (t.ret % portBYTE_ALIGNMENT) # 0,
                                sections |-> 1]
                      ELSE fail
             ELSE fail
        ELSE fail

\* The body of Malloc between vTaskSuspendAll and xTaskResumeAll, and the
\* assertion after it: the heap afterwards, the pointer returned, whether
\* a configASSERT fired, and how often the call suspended the scheduler.
Malloc(h, xWantedSize) ==
    LET want == MallocAdjust(xWantedSize)
        fail == [heap |-> h, ret |-> NULL, asserted |-> FALSE, sections |-> 1]
    IN  IF HeapBlockSizeIsValid(want)
        THEN IF (want > 0) /\ (want <= h.free)
             THEN LET s == MallocSearch(h.mem, HeadAddr, h.mem[HeadAddr].next, want)
                  IN  IF s.blk # h.tail
                      THEN LET t == MallocTake(h, s.prev, s.blk, want)
                           IN  [heap |-> t.heap, ret |-> t.ret,
                                asserted |-> t.asserted
                                               \/ (t.ret % portBYTE_ALIGNMENT) # 0,
                                sections |-> 1]
                      ELSE fail
             ELSE fail
        ELSE fail

(* ---------------------------------- Free ------------------------------- *)

\* The two configASSERTs of Free on the header in front of pv.
FreeAsserts(h, pv) ==
    LET pxLink == pv - _size_of_heap_block_linklist_element
    IN  ~SizeIsAllocated(h.mem[pxLink].size) \/ h.mem[pxLink].next # NULL

\* Guards that look at the link only, not at the allocation bit.
FreeAcceptsNullLink(h, pv) ==
    LET pxLink == pv - _size_of_heap_block_linklist_element
    IN  pv # NULL /\ h.mem[pxLink].next = NULL

\* Free's guards: the block is marked allocated and its link is null.
FreeAccepts(h, pv) ==
    LET pxLink == pv - _size_of_heap_block_linklist_element
    IN  pv # NULL /\ SizeIsAllocated(h.mem[pxLink].size) /\ h.mem[pxLink].next = NULL

\* HeapFreeBlock that leaves the allocation bit set.
HeapFreeBlockKeepsBit(m, pxLink) == m

\* HeapFreeBlock(pxLink): clear the allocation bit of the header.
HeapFreeBlock(m, pxLink) == [m EXCEPT ![pxLink].size = ClearAllocatedBit(@)]

\* FreeInsert that adds the block's size after the insertion has merged it.
FreeInsertAddsAfter(h, pxLink) ==
    LET m == InsertBlockIntoFreeList(h.mem, h.tail, pxLink)
    IN  [h EXCEPT !.free = Wrap(h.free + m[pxLink].size),
                  !.mem = m,
                  !.nfree = h.nfree + 1]

\* Free that forgets to give the bytes back to xFreeBytesRemaining.
FreeAddBytesNever(h, pxLink) == h

\* xFreeBytesRemaining += pxLink->_size
FreeAddBytes(h, pxLink) == [h EXCEPT !.free = Wrap(h.free + h.mem[pxLink].size)]

\* The insertion without the count of the free.
FreeLinkBlockNoCount(h, pxLink) ==
    [h EXCEPT !.mem = InsertBlockIntoFreeList(h.mem, h.tail, pxLink)]

\* InsertBlockIntoFreeList(pxLink); xNumberOfSuccessfulFrees++
FreeLinkBlock(h, pxLink) ==
    [h EXCEPT !.mem = InsertBlockIntoFreeList(h.mem, h.tail, pxLink),
              !.nfree = h.nfree + 1]

\* Free's body between vTaskSuspendAll and xTaskResumeAll.
FreeInsert(h, pxLink) == FreeLinkBlock(FreeAddBytes(h, pxLink), pxLink)

\* Free without the test for a null pointer around the section: Free(NULL)
\* suspends the scheduler and counts a free.
FreeNullCounts(h, pv) ==
    LET pxLink == pv - _size_of_heap_block_linklist_element
    IN  IF pv # NULL
        THEN [heap |-> IF FreeAccepts(h, pv)
                       THEN FreeInsert([h EXCEPT !.mem = HeapFreeBlock(h.mem, pxLink)],
                                       pxLink)
                       ELSE h,
              asserted |-> FreeAsserts(h, pv),
              sections |-> IF FreeAccepts(h, pv) THEN 1 ELSE 0]
        ELSE [heap |-> [h EXCEPT !.nfree = h.nfree + 1], asserted |-> FALSE,
              sections |-> 1]

\* Heap4::Free: the heap afterwards, whether a configASSERT fired (it
\* reports and goes on), and how often the call suspended the scheduler.
Free(h, pv) ==
    LET pxLink == pv - _size_of_heap_block_linklist_element
    IN  IF pv # NULL
        THEN [heap |-> IF FreeAccepts(h, pv)
                       THEN FreeInsert([h EXCEPT !.mem = HeapFreeBlock(h.mem, pxLink)],
                                       pxLink)
                       ELSE h,
              asserted |-> FreeAsserts(h, pv),
              sections |-> IF FreeAccepts(h, pv) THEN 1 ELSE 0]
        ELSE [heap |-> h, asserted |-> FALSE, sections |-> 0]

(* --------------------------------- Calloc ------------------------------ *)

\* A 4-byte little-endian word after memset has zeroed its k lowest bytes.
\* The allocation flag is the word's top bit (in its highest byte).
ZeroLowBytes(v, k) ==
    IF k <= 0 THEN v
    ELSE IF k >= SizeofWord THEN 0
    ELSE LET flag == IF SizeIsAllocated(v) THEN _heap_block_allocated_bitmask ELSE 0
             low  == ClearAllocatedBit(v)
         IN  flag + (low - (low % (2 ^ (8 * k))))

\* memset(pv, 0, n) seen through the headers: of the header at address a the
\* bytes [a, a + sizeof(BlockLink_t)) that lie in [pv, pv + n) are zeroed.
Memset0(m, pv, n) ==
    [a \in DOMAIN m |->
        IF a >= pv /\ a < pv + n
        THEN LET c == IF pv + n - a < SizeofBlockLink THEN pv + n - a ELSE SizeofBlockLink
             IN  [next |-> ZeroLowBytes(m[a].next, c),
                  size |-> ZeroLowBytes(m[a].size, c - SizeofWord)]
        ELSE m[a]]

\* Heap4::Calloc: pvPortMalloc(xNum * xSize) and memset, unless the product
\* overflows.  pvPortMalloc is Malloc of the process-wide default heap
\* (DI_Heap.cpp), whatever the instance Calloc is called on: h is that
\* default heap, and no member of the instance is read or written.
Calloc(h, xNum, xSize) ==
    IF ~HeapMultiplyWillOverflow(xNum, xSize)
    THEN LET r == Malloc(h, Wrap(xNum * xSize))
         IN  IF r.ret # NULL
             THEN [r EXCEPT !.heap.mem = Memset0(@, r.ret, Wrap(xNum * xSize))]
             ELSE r
    ELSE [heap |-> h, ret |-> NULL, asserted |-> FALSE, sections |-> 0]

(* ------------------------------ GetHeapStats --------------------------- *)

NoStats == [xSizeOfLargestFreeBlockInBytes |-> 0,
            xSizeOfSmallestFreeBlockInBytes |-> 0,
            xNumberOfFreeBlocks |-> 0,
            xAvailableHeapSpaceInBytes |-> 0,
            xNumberOfSuccessfulAllocations |-> 0,
            xNumberOfSuccessfulFrees |-> 0,
            xMinimumEverFreeBytesRemaining |-> 0]

RECURSIVE StatsScanElseIf(_, _, _, _)
\* A scan that tests a block for the smallest size only when it is not the largest.
StatsScanElseIf(m, tail, pxBlock, acc) ==
    IF pxBlock # tail /\ pxBlock # NULL
    THEN StatsScanElseIf(m, tail, m[pxBlock].next,
                   [xBlocks  |-> acc.xBlocks + 1,
                    xMaxSize |-> IF m[pxBlock].size > acc.xMaxSize
                                 THEN m[pxBlock].size ELSE acc.xMaxSize,
                    xMinSize |-> IF m[pxBlock].size > acc.xMaxSize
                                 THEN acc.xMinSize
                                 ELSE IF m[pxBlock].size < acc.xMinSize
                                      THEN m[pxBlock].size ELSE acc.xMinSize])
    ELSE acc

RECURSIVE StatsScan(_, _, _, _)
\* The while loop of GetHeapStats from pxBlock on; acc carries xBlocks, xMaxSize, xMinSize.
StatsScan(m, tail, pxBlock, acc) ==
    IF pxBlock # tail /\ pxBlock # NULL
    THEN StatsScan(m, tail, m[pxBlock].next,
                   [xBlocks  |-> acc.xBlocks + 1,
                    xMaxSize |-> IF m[pxBlock].size > acc.xMaxSize
                                 THEN m[pxBlock].size ELSE acc.xMaxSize,
                    xMinSize |-> IF m[pxBlock].size < acc.xMinSize
                                 THEN m[pxBlock].size ELSE acc.xMinSize])
    ELSE acc

\* GetHeapStats that restarts the low-water mark at the current free bytes.
GetHeapStatsResetsLowWater(h) == [h EXCEPT !.min = h.free]

\* The members of the heap after GetHeapStats: the call assigns to its
\* locals and to *pxHeapStats only.
GetHeapStatsHeap(h) == h

\* The values GetHeapStats stores in *pxHeapStats.
GetHeapStats(h) ==
    LET acc == StatsScan(h.mem, h.tail, h.mem[HeadAddr].next,
                         [xBlocks |-> 0, xMaxSize |-> 0, xMinSize |-> portMAX_DELAY])
    IN  [xSizeOfLargestFreeBlockInBytes |-> acc.xMaxSize,
         xSizeOfSmallestFreeBlockInBytes |-> acc.xMinSize,
         xNumberOfFreeBlocks |-> acc.xBlocks,
         xAvailableHeapSpaceInBytes |-> h.free,
         xNumberOfSuccessfulAllocations |-> h.nalloc,
         xNumberOfSuccessfulFrees |-> h.nfree,
         xMinimumEverFreeBytesRemaining |-> h.min]

(* ------------------------- the free list, as a value ------------------- *)

RECURSIVE ChainFrom(_, _, _)
\* The nodes reached from address a by following links, a included, up to
\* and excluding a null link; at most fuel nodes.
ChainFrom(m, a, fuel) ==
    IF a = NULL \/ a \notin DOMAIN m \/ fuel = 0
    THEN << >>
    ELSE <<a>> \o ChainFrom(m, m[a].next, fuel - 1)

\* Head, the free blocks and the tail sentinel, in list order.
ListNodes(h) == ChainFrom(h.mem, HeadAddr, Cardinality(DOMAIN h.mem) + 1)

\* The free blocks: everything reachable from head except the two sentinels.
FreeBlocks(h) ==
    LET l == ListNodes(h)
    IN  SelectSeq(SubSeq(l, 2, Len(l)), LAMBDA a : a # h.tail)

RECURSIVE SumSizes(_, _)
SumSizes(m, blocks) ==
    IF blocks = << >> THEN 0
    ELSE ClearAllocatedBit(m[Head(blocks)].size) + SumSizes(m, Tail(blocks))

(* ------------------------------ the program ---------------------------- *)

\* Sizes asked of Malloc: small ones, the buffer size, and the ones around
\* the allocation bit and around the largest size_t.
Requests ==
    {0, 1, 8, 17, 24, 40, BufSize, BufSize + 1,
     _heap_block_allocated_bitmask - 17, _heap_block_allocated_bitmask - 16,
     _heap_size_max - 16, _heap_size_max - 15, _heap_size_max}

\* (xNum, xSize) asked of Calloc.
CallocArgs ==
    {<<0, 5>>, <<1, 1>>, <<5, 3>>, <<3, 8>>,
     <<2, _heap_block_allocated_bitmask>>, <<16, 2 ^ (SizeBits - 4)>>,
     <<3, (_heap_size_max + 3) \div 3>>}

NoCall == [ret |-> NULL, free0 |-> 0, blocks0 |-> 0]

\* The record of a completed call: what was asked, what came back, the free
\* bytes and the number of free blocks before it, and, when the call before
\* it was a successful Malloc, that call's result (before).
Call(op, arg, arg2, r, stats, h, before) ==
    [op |-> op, arg |-> arg, arg2 |-> arg2, ret |-> r.ret, asserted |-> r.asserted,
     sections |-> r.sections, stats |-> stats,
     free0 |-> h.free, blocks0 |-> Len(FreeBlocks(h)), before |-> before]

\* What a call that returns no pointer hands to Call.
NoResult(asserted, sections) ==
    [ret |-> NULL, asserted |-> asserted, sections |-> sections]

\* What the next call records of the current last call.
Before ==
    IF last.op = "Malloc" /\ last.ret # NULL
    THEN [ret |-> last.ret, free0 |-> last.free0, blocks0 |-> last.blocks0]
    ELSE NoCall

SetHeap(h) ==
    /\ mem' = h.mem
    /\ _tail_element' = h.tail
    /\ xFreeBytesRemaining' = h.free
    /\ xMinimumEverFreeBytesRemaining' = h.min
    /\ xNumberOfSuccessfulAllocations' = h.nalloc
    /\ xNumberOfSuccessfulFrees' = h.nfree

\* The tasks that call the allocator.
Tasks == {1, 2}

IdleTask == [pc |-> "idle", arg |-> 0, want |-> 0, prev |-> NULL, blk |-> NULL,
             ret |-> NULL, sret |-> NULL]

Init ==
    \E buf \in BufAddrs :
        /\ buffer = [begin |-> buf, size |-> BufSize]
        /\ LET h == Heap4(buf, BufSize)
           IN  /\ mem = h.mem
               /\ _tail_element = h.tail
               /\ xFreeBytesRemaining = h.free
               /\ xMinimumEverFreeBytesRemaining = h.min
               /\ xNumberOfSuccessfulAllocations = h.nalloc
               /\ xNumberOfSuccessfulFrees = h.nfree
               /\ last = Call("Heap4", buf, BufSize, NoResult(FALSE, 0), NoStats, h, NoCall)
        /\ allocated = {}
        /\ task = [t \in Tasks |-> IdleTask]
        /\ uxSchedulerSuspended = 0
        /\ pxCurrentTCB = 1
        /\ serial = Heap4(buf, BufSize)
        /\ other = CreateHeap(OtherBufAddr, OtherBufSize)
        /\ otherAllocated = {}

\* A task calls Malloc(n) and runs it to completion.
MallocCall(n) ==
    /\ xNumberOfSuccessfulAllocations < MaxAllocs
    /\ LET r == Malloc(Heap, n)
       IN  /\ SetHeap(r.heap)
           /\ allocated' = IF r.ret # NULL THEN allocated \cup {r.ret} ELSE allocated
           /\ last' = Call("Malloc", n, 0, r, NoStats, Heap, Before)
    /\ UNCHANGED <<buffer, ovars, tvars>>

\* A task calls Free on a pointer it holds, or on NULL.
FreeCall(pv) ==
    /\ pv \in allocated \cup {NULL}
    /\ LET r == Free(Heap, pv)
       IN  /\ SetHeap(r.heap)
           /\ allocated' = allocated \ {pv}
           /\ last' = Call("Free", pv, 0, NoResult(r.asserted, r.sections), NoStats, Heap, Before)
    /\ UNCHANGED <<buffer, ovars, tvars>>

\* A task calls Calloc(xNum, xSize) and runs it to completion.
CallocCall(xNum, xSize) ==
    /\ xNumberOfSuccessfulAllocations < MaxAllocs
    /\ LET r == Calloc(Heap, xNum, xSize)
       IN  /\ SetHeap(r.heap)
           /\ allocated' = IF r.ret # NULL THEN allocated \cup {r.ret} ELSE allocated
           /\ last' = Call("Calloc", xNum, xSize, r, NoStats, Heap, Before)
    /\ UNCHANGED <<buffer, ovars, tvars>>

\* A task calls GetHeapStats.
GetHeapStatsCall ==
    /\ SetHeap(GetHeapStatsHeap(Heap))
    /\ last' = Call("GetHeapStats", 0, 0, NoResult(FALSE, 1), GetHeapStats(Heap),
                    Heap, Before)
    /\ UNCHANGED <<buffer, ovars, allocated, tvars>>

Next ==
    \/ \E n \in Requests : MallocCall(n)
    \/ \E pv \in Addrs \cup {NULL} : FreeCall(pv)
    \/ \E c \in CallocArgs : CallocCall(c[1], c[2])
    \/ GetHeapStatsCall

Spec == Init /\ [][Next]_vars

(* --------------------- tasks that preempt one another ------------------ *)

hvars == <<mem, _tail_element, xFreeBytesRemaining, xMinimumEverFreeBytesRemaining,
           xNumberOfSuccessfulAllocations, xNumberOfSuccessfulFrees>>

\* Sizes the tasks ask of Malloc.
TaskRequests == {0, 1, 17, 40}

\* vTaskSuspendAll: the suspension depth goes up; no context switch until it is 0 again.
vTaskSuspendAll(u) == u + 1

\* xTaskResumeAll: the suspension depth goes down.
xTaskResumeAll(u) == u - 1

\* The scheduler switches to another task; never while it is suspended.
ContextSwitch(t) ==
    /\ uxSchedulerSuspended = 0
    /\ pxCurrentTCB # t
    /\ pxCurrentTCB' = t
    /\ UNCHANGED <<hvars, buffer, ovars, allocated, last, task, uxSchedulerSuspended, serial>>

\* Malloc that returns a block without resuming the scheduler.
MallocNextPcSkipsResume(pc, found) ==
    CASE pc = "M_suspend" -> "M_search"
      [] pc = "M_search"  -> IF found THEN "M_take" ELSE "M_resume"
      [] pc = "M_take"    -> "M_return"
      [] pc = "M_resume"  -> "M_return"
      [] OTHER            -> "idle"

\* The order of Malloc's steps: suspend, search, take, resume, return.
MallocNextPc(pc, found) ==
    CASE pc = "M_suspend" -> "M_search"
      [] pc = "M_search"  -> IF found THEN "M_take" ELSE "M_resume"
      [] pc = "M_take"    -> "M_resume"
      [] pc = "M_resume"  -> "M_return"
      [] OTHER            -> "idle"

\* Free with xFreeBytesRemaining += size done before vTaskSuspendAll.
FreeNextPcAddsFirst(pc, accepted) ==
    CASE pc = "F_check"   -> IF accepted THEN "F_clear" ELSE "idle"
      [] pc = "F_clear"   -> "F_add"
      [] pc = "F_add"     -> "F_suspend"
      [] pc = "F_suspend" -> "F_insert"
      [] pc = "F_insert"  -> "F_resume"
      [] OTHER            -> "idle"

\* Free that suspends the scheduler only after it has updated the list.
FreeNextPcSuspendsLast(pc, accepted) ==
    CASE pc = "F_check"   -> IF accepted THEN "F_clear" ELSE "idle"
      [] pc = "F_clear"   -> "F_add"
      [] pc = "F_add"     -> "F_insert"
      [] pc = "F_insert"  -> "F_suspend"
      [] pc = "F_suspend" -> "F_resume"
      [] OTHER            -> "idle"

\* The order of Free's steps: check the header, clear the allocation bit,
\* suspend, add the bytes, insert the block, resume.
FreeNextPc(pc, accepted) ==
    CASE pc = "F_check"   -> IF accepted THEN "F_clear" ELSE "idle"
      [] pc = "F_clear"   -> "F_suspend"
      [] pc = "F_suspend" -> "F_add"
      [] pc = "F_add"     -> "F_insert"
      [] pc = "F_insert"  -> "F_resume"
      [] OTHER            -> "idle"

Running(t, pc) == pxCurrentTCB = t /\ task[t].pc = pc

\* The calls of Malloc that have started and not yet returned.
MallocsInFlight ==
    Cardinality({t \in Tasks : task[t].pc \in
                    {"M_suspend", "M_search", "M_take", "M_resume", "M_return"}})

\* Task t calls Malloc(n).
TaskCallMalloc(t, n) ==
    /\ Running(t, "idle")
    /\ xNumberOfSuccessfulAllocations + MallocsInFlight < MaxAllocs
    /\ task' = [task EXCEPT ![t] = [IdleTask EXCEPT !.pc = "M_suspend", !.arg = n]]
    /\ UNCHANGED <<hvars, buffer, ovars, allocated, last, uxSchedulerSuspended,
                   pxCurrentTCB, serial>>

\* Malloc, line 164: vTaskSuspendAll().
TaskMallocSuspend(t) ==
    /\ Running(t, "M_suspend")
    /\ uxSchedulerSuspended' = vTaskSuspendAll(uxSchedulerSuspended)
    /\ task' = [task EXCEPT ![t].pc = MallocNextPc("M_suspend", FALSE)]
    /\ UNCHANGED <<hvars, buffer, ovars, allocated, last, pxCurrentTCB, serial>>

\* Malloc, lines 178-220: adjust the size, test it, walk the list.
TaskMallocSearch(t) ==
    /\ Running(t, "M_search")
    /\ LET want == MallocAdjust(task[t].arg)
           try == HeapBlockSizeIsValid(want) /\ want > 0 /\ want <= xFreeBytesRemaining
           s == MallocSearch(mem, HeadAddr, mem[HeadAddr].next, want)
           found == try /\ s.blk # _tail_element
           sr == Malloc(serial, task[t].arg)
       IN  /\ task' = [task EXCEPT ![t].pc = MallocNextPc("M_search", found),
                                   ![t].want = want,
                                   ![t].prev = IF found THEN s.prev ELSE NULL,
                                   ![t].blk = IF found THEN s.blk ELSE NULL,
                                   ![t].sret = IF found THEN NULL ELSE sr.ret]
           /\ serial' = IF found THEN serial ELSE sr.heap
    /\ UNCHANGED <<hvars, buffer, ovars, allocated, last, uxSchedulerSuspended, pxCurrentTCB>>

\* Malloc, lines 222-269: unlink, split, charge and mark the block found.
TaskMallocTake(t) ==
    /\ Running(t, "M_take")
    /\ LET r == MallocTake(Heap, task[t].prev, task[t].blk, task[t].want)
           sr == Malloc(serial, task[t].arg)
       IN  /\ SetHeap(r.heap)
           /\ task' = [task EXCEPT ![t].pc = MallocNextPc("M_take", TRUE),
                                   ![t].ret = r.ret,
                                   ![t].sret = sr.ret]
           /\ serial' = sr.heap
    /\ UNCHANGED <<buffer, ovars, allocated, last, uxSchedulerSuspended, pxCurrentTCB>>

\* Malloc, line 288: xTaskResumeAll().
TaskMallocResume(t) ==
    /\ Running(t, "M_resume")
    /\ uxSchedulerSuspended' = xTaskResumeAll(uxSchedulerSuspended)
    /\ task' = [task EXCEPT ![t].pc = MallocNextPc("M_resume", FALSE)]
    /\ UNCHANGED <<hvars, buffer, ovars, allocated, last, pxCurrentTCB, serial>>

\* Malloc, lines 303-304: the caller gets the pointer.
TaskMallocReturn(t) ==
    /\ Running(t, "M_return")
    /\ allocated' = IF task[t].ret # NULL THEN allocated \cup {task[t].ret} ELSE allocated
    /\ task' = [task EXCEPT ![t] = IdleTask]
    /\ UNCHANGED <<hvars, buffer, ovars, last, uxSchedulerSuspended, pxCurrentTCB, serial>>

\* Task t calls Free on a pointer that was handed out and that no other
\* task is freeing, or on NULL (line 312).
TaskCallFree(t, pv) ==
    /\ Running(t, "idle")
    /\ pv \in allocated \cup {NULL}
    /\ allocated' = allocated \ {pv}
    /\ task' = [task EXCEPT ![t] =
                    IF pv # NULL
                    THEN [IdleTask EXCEPT !.pc = "F_check", !.arg = pv,
                              !.blk = pv - _size_of_heap_block_linklist_element]
                    ELSE IdleTask]
    /\ UNCHANGED <<hvars, buffer, ovars, last, uxSchedulerSuspended, pxCurrentTCB, serial>>

\* Free, lines 321-326: the assertions and the tests on the header.
TaskFreeCheck(t) ==
    /\ Running(t, "F_check")
    /\ LET next == FreeNextPc("F_check", FreeAccepts(Heap, task[t].arg))
       IN  task' = [task EXCEPT ![t] = IF next = "idle" THEN IdleTask
                                       ELSE [@ EXCEPT !.pc = next]]
    /\ UNCHANGED <<hvars, buffer, ovars, allocated, last, uxSchedulerSuspended,
                   pxCurrentTCB, serial>>

\* Free, line 330: HeapFreeBlock(pxLink).
TaskFreeClear(t) ==
    /\ Running(t, "F_clear")
    /\ mem' = HeapFreeBlock(mem, task[t].blk)
    /\ task' = [task EXCEPT ![t].pc = FreeNextPc("F_clear", TRUE)]
    /\ UNCHANGED <<_tail_element, xFreeBytesRemaining, xMinimumEverFreeBytesRemaining,
                   xNumberOfSuccessfulAllocations, xNumberOfSuccessfulFrees,
                   buffer, ovars, allocated, last, uxSchedulerSuspended, pxCurrentTCB, serial>>

\* Free, line 337: vTaskSuspendAll().
TaskFreeSuspend(t) ==
    /\ Running(t, "F_suspend")
    /\ uxSchedulerSuspended' = vTaskSuspendAll(uxSchedulerSuspended)
    /\ task' = [task EXCEPT ![t].pc = FreeNextPc("F_suspend", TRUE)]
    /\ UNCHANGED <<hvars, buffer, ovars, allocated, last, pxCurrentTCB, serial>>

\* Free, line 340: xFreeBytesRemaining += pxLink->_size.
TaskFreeAdd(t) ==
    /\ Running(t, "F_add")
    /\ SetHeap(FreeAddBytes(Heap, task[t].blk))
    /\ task' = [task EXCEPT ![t].pc = FreeNextPc("F_add", TRUE)]
    /\ UNCHANGED <<buffer, ovars, allocated, last, uxSchedulerSuspended, pxCurrentTCB, serial>>

\* Free, lines 342-343: InsertBlockIntoFreeList(pxLink), xNumberOfSuccessfulFrees++.
TaskFreeInsert(t) ==
    /\ Running(t, "F_insert")
    /\ SetHeap(FreeLinkBlock(Heap, task[t].blk))
    /\ serial' = Free(serial, task[t].arg).heap
    /\ task' = [task EXCEPT ![t].pc = FreeNextPc("F_insert", TRUE)]
    /\ UNCHANGED <<buffer, ovars, allocated, last, uxSchedulerSuspended, pxCurrentTCB>>

\* Free, line 345: xTaskResumeAll(), and the return.
TaskFreeResume(t) ==
    /\ Running(t, "F_resume")
    /\ uxSchedulerSuspended' = xTaskResumeAll(uxSchedulerSuspended)
    /\ task' = [task EXCEPT ![t] = IdleTask]
    /\ UNCHANGED <<hvars, buffer, ovars, allocated, last, pxCurrentTCB, serial>>

NextTasks ==
    \E t \in Tasks :
        \/ ContextSwitch(t)
        \/ \E n \in TaskRequests : TaskCallMalloc(t, n)
        \/ TaskMallocSuspend(t)
        \/ TaskMallocSearch(t)
        \/ TaskMallocTake(t)
        \/ TaskMallocResume(t)
        \/ TaskMallocReturn(t)
        \/ \E pv \in Addrs \cup {NULL} : TaskCallFree(t, pv)
        \/ TaskFreeCheck(t)
        \/ TaskFreeClear(t)
        \/ TaskFreeSuspend(t)
        \/ TaskFreeAdd(t)
        \/ TaskFreeInsert(t)
        \/ TaskFreeResume(t)

SpecTasks == Init /\ [][NextTasks]_vars

(* ------------- two heaps: the default one and one made by CreateHeap --- *)

\* Sizes asked of Malloc when two heaps are in use.
HeapsRequests == {1, 24, BufSize}

\* (xNum, xSize) asked of Calloc when two heaps are in use.
HeapsCallocArgs == {<<1, 1>>, <<3, 8>>, <<3, (_heap_size_max + 3) \div 3>>}

\* The cap on the successful allocations of the two heaps together.
HeapsBudget == xNumberOfSuccessfulAllocations + other.nalloc < MaxAllocs

\* A task calls Malloc(n) on the second heap.
OtherMallocCall(n) ==
    /\ HeapsBudget
    /\ LET r == Malloc(other, n)
       IN  /\ other' = r.heap
           /\ otherAllocated' = IF r.ret # NULL THEN otherAllocated \cup {r.ret}
                                 ELSE otherAllocated
           /\ last' = Call("Other.Malloc", n, 0, r, NoStats, other, Before)
    /\ UNCHANGED <<hvars, buffer, allocated, tvars>>

\* A task calls Free on the second heap, with a pointer that heap's Malloc returned.
OtherFreeCall(pv) ==
    /\ pv \in otherAllocated
    /\ LET r == Free(other, pv)
       IN  /\ other' = r.heap
           /\ otherAllocated' = otherAllocated \ {pv}
           /\ last' = Call("Other.Free", pv, 0, NoResult(r.asserted, r.sections),
                           NoStats, other, Before)
    /\ UNCHANGED <<hvars, buffer, allocated, tvars>>

\* A task calls Calloc(xNum, xSize) on the second heap: Calloc goes to
\* pvPortMalloc, so the block comes out of the default heap.
OtherCallocCall(xNum, xSize) ==
    /\ HeapsBudget
    /\ LET r == Calloc(Heap, xNum, xSize)
       IN  /\ SetHeap(r.heap)
           /\ allocated' = IF r.ret # NULL THEN allocated \cup {r.ret} ELSE allocated
           /\ last' = Call("Other.Calloc", xNum, xSize, r, NoStats, other, Before)
    /\ UNCHANGED <<buffer, ovars, tvars>>

NextHeaps ==
    \/ \E n \in HeapsRequests : HeapsBudget /\ MallocCall(n)
    \/ \E pv \in Addrs : FreeCall(pv)
    \/ \E c \in HeapsCallocArgs : HeapsBudget /\ CallocCall(c[1], c[2])
    \/ \E n \in HeapsRequests : OtherMallocCall(n)
    \/ \E pv \in OtherAddrs : OtherFreeCall(pv)
    \/ \E c \in HeapsCallocArgs : OtherCallocCall(c[1], c[2])

SpecHeaps == Init /\ [][NextHeaps]_vars

(* ------------------- callers that misuse Free -------------------------- *)

\* Sizes asked of Malloc by the callers that misuse Free.
MisuseRequests == {1, 24, 40}

\* Pointers a caller may wrongly hand to Free: aligned addresses in the
\* buffer, one header past an address of the buffer, that are not the
\* start of a block the caller holds (freed before, or never returned).
BadPointers ==
    {pv \in Addrs \ {HeadAddr} :
        /\ pv % portBYTE_ALIGNMENT = 0
        /\ (pv - _size_of_heap_block_linklist_element) \in Addrs
        /\ pv \notin allocated}

\* A task calls Free on such a pointer.
BadFreeCall(pv) ==
    /\ pv \in BadPointers
    /\ LET r == Free(Heap, pv)
       IN  /\ SetHeap(r.heap)
           /\ last' = Call("Free", pv, 0, NoResult(r.asserted, r.sections),
                           NoStats, Heap, Before)
    /\ UNCHANGED <<buffer, ovars, allocated, tvars>>

NextMisuse ==
    \/ \E n \in MisuseRequests : MallocCall(n)
    \/ \E pv \in Addrs : FreeCall(pv)
    \/ \E pv \in Addrs : BadFreeCall(pv)

SpecMisuse == Init /\ [][NextMisuse]_vars

(* ================== the allocation-failure hook enabled ================= *)

\* Sizes the tasks ask of Malloc in the build with the hook.
HookRequests == {0, 1, 40}

\* The end of Malloc that calls the hook whatever pvReturn is.
MallocHookNextPcAlways(pc, failed) ==
    CASE pc = "M_resume" -> "M_hook"
      [] pc = "M_hook"   -> "M_return"
      [] OTHER           -> "idle"

\* The end of Malloc with configUSE_MALLOC_FAILED_HOOK == 1: after
\* xTaskResumeAll the hook is called if pvReturn is NULL, then Malloc returns.
MallocHookNextPc(pc, failed) ==
    CASE pc = "M_resume" -> IF failed THEN "M_hook" ELSE "M_return"
      [] pc = "M_hook"   -> "M_return"
      [] OTHER           -> "idle"

\* Malloc, lines 288-292: xTaskResumeAll(), then the test of pvReturn.
TaskMallocResumeHooked(t) ==
    /\ Running(t, "M_resume")
    /\ uxSchedulerSuspended' = xTaskResumeAll(uxSchedulerSuspended)
    /\ task' = [task EXCEPT ![t].pc = MallocHookNextPc("M_resume", task[t].ret = NULL)]
    /\ UNCHANGED <<hvars, buffer, ovars, allocated, last, pxCurrentTCB, serial>>

\* Malloc, line 294: vApplicationMallocFailedHook(); the call is recorded
\* with the suspension depth it is made under.
TaskMallocHook(t) ==
    /\ Running(t, "M_hook")
    /\ last' = Call("vApplicationMallocFailedHook", 0, 0,
                    NoResult(FALSE, uxSchedulerSuspended), NoStats,
                    Heap4(buffer.begin, buffer.size), NoCall)
    /\ task' = [task EXCEPT ![t].pc = MallocHookNextPc("M_hook", TRUE)]
    /\ UNCHANGED <<hvars, buffer, ovars, allocated, uxSchedulerSuspended,
                   pxCurrentTCB, serial>>

NextHook ==
    \E t \in Tasks :
        \/ ContextSwitch(t)
        \/ \E n \in HookRequests : TaskCallMalloc(t, n)
        \/ TaskMallocSuspend(t)
        \/ TaskMallocSearch(t)
        \/ TaskMallocTake(t)
        \/ TaskMallocResumeHooked(t)
        \/ TaskMallocHook(t)
        \/ TaskMallocReturn(t)
        \/ \E pv \in Addrs \cup {NULL} : TaskCallFree(t, pv)
        \/ TaskFreeCheck(t)
        \/ TaskFreeClear(t)
        \/ TaskFreeSuspend(t)
        \/ TaskFreeAdd(t)
        \/ TaskFreeInsert(t)
        \/ TaskFreeResume(t)

SpecHook == Init /\ [][NextHook]_vars

(* ================== GetHeapStats next to another task =================== *)

\* The task that calls GetHeapStats and the task that allocates and frees.
StatsCaller == 1

Worker == 2

\* Sizes the worker asks of Malloc.
StatsRequests == {17, 40}

\* The locals of GetHeapStats as they are declared.
StatsLocals == [xBlocks |-> 0, xMaxSize |-> 0, xMinSize |-> portMAX_DELAY]

\* GetHeapStats that walks the list before it suspends the scheduler.
StatsNextPcScansFirst(pc) ==
    CASE pc = "G_call"    -> "G_scan"
      [] pc = "G_scan"    -> "G_suspend"
      [] pc = "G_suspend" -> "G_resume"
      [] pc = "G_resume"  -> "G_copy"
      [] OTHER            -> "idle"

\* The order of GetHeapStats' steps: suspend, walk the list, resume, copy
\* the counters inside a critical section, return.
StatsNextPc(pc) ==
    CASE pc = "G_call"    -> "G_suspend"
      [] pc = "G_suspend" -> "G_scan"
      [] pc = "G_scan"    -> "G_resume"
      [] pc = "G_resume"  -> "G_copy"
      [] OTHER            -> "idle"

\* Task t calls GetHeapStats (lines 376-379).
TaskCallGetHeapStats(t) ==
    /\ Running(t, "idle")
    /\ task' = [task EXCEPT ![t] =
                    [pc |-> StatsNextPc("G_call"),
                     arg |-> 0, want |-> 0, prev |-> NULL, blk |-> NULL,
                     ret |-> NULL, sret |-> NULL, acc |-> StatsLocals]]
    /\ UNCHANGED <<hvars, buffer, ovars, allocated, last, uxSchedulerSuspended,
                   pxCurrentTCB, serial>>

\* GetHeapStats, line 381: vTaskSuspendAll().
TaskStatsSuspend(t) ==
    /\ Running(t, "G_suspend")
    /\ uxSchedulerSuspended' = vTaskSuspendAll(uxSchedulerSuspended)
    /\ task' = [task EXCEPT ![t].pc = StatsNextPc("G_suspend")]
    /\ UNCHANGED <<hvars, buffer, ovars, allocated, last, pxCurrentTCB, serial>>

\* GetHeapStats, lines 383-409: the walk over the free list.
TaskStatsScan(t) ==
    /\ Running(t, "G_scan")
    /\ task' = [task EXCEPT ![t].pc = StatsNextPc("G_scan"),
                            ![t].acc = StatsScan(mem, _tail_element, mem[HeadAddr].next,
                                                 StatsLocals)]
    /\ UNCHANGED <<hvars, buffer, ovars, allocated, last, uxSchedulerSuspended,
                   pxCurrentTCB, serial>>

\* GetHeapStats, line 411: xTaskResumeAll().
TaskStatsResume(t) ==
    /\ Running(t, "G_resume")
    /\ uxSchedulerSuspended' = xTaskResumeAll(uxSchedulerSuspended)
    /\ task' = [task EXCEPT ![t].pc = StatsNextPc("G_resume")]
    /\ UNCHANGED <<hvars, buffer, ovars, allocated, last, pxCurrentTCB, serial>>

\* GetHeapStats, lines 413-425: the three values of the walk go into
\* *pxHeapStats, then the four counters inside taskENTER_CRITICAL /
\* taskEXIT_CRITICAL, which nothing interrupts; the call returns.
TaskStatsCopy(t) ==
    /\ Running(t, "G_copy")
    /\ last' = Call("GetHeapStats", 0, 0, NoResult(FALSE, 1),
                    [xSizeOfLargestFreeBlockInBytes |-> task[t].acc.xMaxSize,
                     xSizeOfSmallestFreeBlockInBytes |-> task[t].acc.xMinSize,
                     xNumberOfFreeBlocks |-> task[t].acc.xBlocks,
                     xAvailableHeapSpaceInBytes |-> xFreeBytesRemaining,
                     xNumberOfSuccessfulAllocations |-> xNumberOfSuccessfulAllocations,
                     xNumberOfSuccessfulFrees |-> xNumberOfSuccessfulFrees,
                     xMinimumEverFreeBytesRemaining |-> xMinimumEverFreeBytesRemaining],
                    Heap, NoCall)
    /\ task' = [task EXCEPT ![t] = IdleTask]
    /\ UNCHANGED <<hvars, buffer, ovars, allocated, uxSchedulerSuspended,
                   pxCurrentTCB, serial>>

NextStats ==
    \/ \E t \in Tasks : ContextSwitch(t)
    \/ TaskCallGetHeapStats(StatsCaller)
    \/ TaskStatsSuspend(StatsCaller)
    \/ TaskStatsScan(StatsCaller)
    \/ TaskStatsResume(StatsCaller)
    \/ TaskStatsCopy(StatsCaller)
    \/ \E n \in StatsRequests : TaskCallMalloc(Worker, n)
    \/ TaskMallocSuspend(Worker)
    \/ TaskMallocSearch(Worker)
    \/ TaskMallocTake(Worker)
    \/ TaskMallocResume(Worker)
    \/ TaskMallocReturn(Worker)
    \/ \E pv \in Addrs \cup {NULL} : TaskCallFree(Worker, pv)
    \/ TaskFreeCheck(Worker)
    \/ TaskFreeClear(Worker)
    \/ TaskFreeSuspend(Worker)
    \/ TaskFreeAdd(Worker)
    \/ TaskFreeInsert(Worker)
    \/ TaskFreeResume(Worker)

SpecStats == Init /\ [][NextStats]_vars

(* ============ operator new and delete in an interrupt handler =========== *)

\* Sizes asked of Malloc and of operator new.
IsrRequests == {17, 40}

\* The task whose calls the handler interrupts.
IsrTask == 1

\* operator new(size, nothrow) in an interrupt handler: __disable_irq(),
\* pvPortMalloc(size), __enable_irq(). Nothing interrupts it, and Malloc and
\* Free mask no interrupt, so it runs between any two steps of the task;
\* arg2 records the suspension depth it finds.
IsrOperatorNew(n) ==
    /\ xNumberOfSuccessfulAllocations + MallocsInFlight < MaxAllocs
    /\ LET r == Malloc(Heap, n)
       IN  /\ SetHeap(r.heap)
           /\ allocated' = IF r.ret # NULL THEN allocated \cup {r.ret} ELSE allocated
           /\ last' = Call("operator new", n, uxSchedulerSuspended, r, NoStats, Heap, NoCall)
    /\ serial' = Malloc(serial, n).heap
    /\ UNCHANGED <<buffer, ovars, task, uxSchedulerSuspended, pxCurrentTCB>>

\* operator delete(ptr) in an interrupt handler: __disable_irq(),
\* vPortFree(ptr), __enable_irq().
IsrOperatorDelete(pv) ==
    /\ pv \in allocated
    /\ LET r == Free(Heap, pv)
       IN  /\ SetHeap(r.heap)
           /\ allocated' = allocated \ {pv}
           /\ last' = Call("operator delete", pv, uxSchedulerSuspended,
                           NoResult(r.asserted, r.sections), NoStats, Heap, NoCall)
    /\ serial' = Free(serial, pv).heap
    /\ UNCHANGED <<buffer, ovars, task, uxSchedulerSuspended, pxCurrentTCB>>

\* A handler has run its call between a task's vTaskSuspendAll and
\* xTaskResumeAll. The task then goes on with pointers into a list that
\* has changed under it, and what it does is undefined (it may follow a
\* null link at Heap4.cpp:55-60, or hand out a block twice): a run is
\* followed up to this point and no further.
IsrInterleaved ==
    last.op \in {"operator new", "operator delete"} /\ last.arg2 > 0

NextIsr ==
    \/ \E n \in IsrRequests : ~IsrInterleaved /\ IsrOperatorNew(n)
    \/ \E pv \in Addrs : ~IsrInterleaved /\ IsrOperatorDelete(pv)
    \/ \E n \in IsrRequests : ~IsrInterleaved /\ TaskCallMalloc(IsrTask, n)
    \/ ~IsrInterleaved /\ TaskMallocSuspend(IsrTask)
    \/ ~IsrInterleaved /\ TaskMallocSearch(IsrTask)
    \/ ~IsrInterleaved /\ TaskMallocTake(IsrTask)
    \/ ~IsrInterleaved /\ TaskMallocResume(IsrTask)
    \/ ~IsrInterleaved /\ TaskMallocReturn(IsrTask)
    \/ \E pv \in Addrs \cup {NULL} : ~IsrInterleaved /\ TaskCallFree(IsrTask, pv)
    \/ ~IsrInterleaved /\ TaskFreeCheck(IsrTask)
    \/ ~IsrInterleaved /\ TaskFreeClear(IsrTask)
    \/ ~IsrInterleaved /\ TaskFreeSuspend(IsrTask)
    \/ ~IsrInterleaved /\ TaskFreeAdd(IsrTask)
    \/ ~IsrInterleaved /\ TaskFreeInsert(IsrTask)
    \/ ~IsrInterleaved /\ TaskFreeResume(IsrTask)

SpecIsr == Init /\ [][NextIsr]_vars

(* ======================= construction over any buffer =================== *)

\* Buffer addresses of every alignment, and the lengths that fit the
\* modelled memory.
CtorBufAddrs == BufBase .. (BufBase + portBYTE_ALIGNMENT - 1)

CtorSizes == 0 .. BufSize

\* The members as their default initialisers leave them, before the
\* constructor body runs.
Heap4Members ==
    [mem |-> [a \in Addrs |-> ZeroLink], tail |-> NULL, free |-> 0, min |-> 0,
     nalloc |-> 0, nfree |-> 0]

\* The first aligned address of the buffer and the bytes left behind it.
CtorStart(buf) ==
    IF (buf % portBYTE_ALIGNMENT) # 0
    THEN AlignDown(buf + (portBYTE_ALIGNMENT - 1)) ELSE buf

\* The buffer holds the tail header: the constructor writes nothing
\* outside [buf, buf + size).
CtorFits(buf, size) ==
    /\ buf + size <= BufBase + 3 + BufSize
    /\ size >= (CtorStart(buf) - buf) + _size_of_heap_block_linklist_element

InitCtor ==
    \E buf \in CtorBufAddrs, size \in CtorSizes :
        /\ CtorFits(buf, size)
        /\ buffer = [begin |-> buf, size |-> size]
        /\ mem = Heap4Members.mem
        /\ _tail_element = Heap4Members.tail
        /\ xFreeBytesRemaining = Heap4Members.free
        /\ xMinimumEverFreeBytesRemaining = Heap4Members.min
        /\ xNumberOfSuccessfulAllocations = Heap4Members.nalloc
        /\ xNumberOfSuccessfulFrees = Heap4Members.nfree
        /\ last = Call("none", buf, size, NoResult(FALSE, 0), NoStats, Heap4Members, NoCall)
        /\ allocated = {}
        /\ task = [t \in Tasks |-> IdleTask]
        /\ uxSchedulerSuspended = 0
        /\ pxCurrentTCB = 1
        /\ serial = Heap4Members
        /\ other = CreateHeap(OtherBufAddr, OtherBufSize)
        /\ otherAllocated = {}

\* The constructor body runs over the buffer.
ConstructCall ==
    /\ last.op = "none"
    /\ SetHeap(Heap4(buffer.begin, buffer.size))
    /\ last' = Call("Heap4", buffer.begin, buffer.size, NoResult(FALSE, 0), NoStats,
                    Heap, NoCall)
    /\ serial' = Heap4(buffer.begin, buffer.size)
    /\ UNCHANGED <<buffer, ovars, allocated, task, uxSchedulerSuspended, pxCurrentTCB>>

NextCtor == ConstructCall

SpecCtor == InitCtor /\ [][NextCtor]_vars

(* ================== block sizes under any configuration ================= *)

\* The values of portBYTE_ALIGNMENT a port may define.
Alignments == {4, 8, 16}

\* _size_of_heap_block_linklist_element for alignment A.
HeaderSizeFor(A) == (SizeofBlockLink + (A - 1)) - ((SizeofBlockLink + (A - 1)) % A)

\* _heap_minimum_block_size for alignment A.
MinimumBlockSizeFor(A) == Wrap(HeaderSizeFor(A) * 2)

\* The size adjustment of Malloc for alignment A.
MallocAdjustFor(A, xWantedSize) ==
    IF xWantedSize > 0
    THEN LET xAdditionalRequiredSize ==
                 Wrap(HeaderSizeFor(A) + A - (xWantedSize % A))
         IN  IF ~HeapAddWillOverflow(xWantedSize, xAdditionalRequiredSize)
             THEN xWantedSize + xAdditionalRequiredSize
             ELSE 0
    ELSE xWantedSize

\* The sizes of the block handed out and of the block split off (0 when
\* there is no split) when a free block of blockSize bytes serves a request
\* of n bytes under alignment A; 0 and 0 when the block does not serve it.
MallocBlockSizesFor(A, blockSize, n) ==
    LET want == MallocAdjustFor(A, n)
    IN  IF want = 0 \/ blockSize < want
        THEN [taken |-> 0, left |-> 0]
        ELSE IF Wrap(blockSize - want) > MinimumBlockSizeFor(A)
             THEN [taken |-> want, left |-> Wrap(blockSize - want)]
             ELSE [taken |-> blockSize, left |-> 0]

\* The largest free block and the largest request tried under each alignment.
ConfigMaxBlock == 64

ConfigMaxRequest == 24

\* Free blocks as the allocator keeps them: a multiple of the alignment, no
\* smaller than the minimum block size.
ConfigBlockSizes(A) ==
    {b \in MinimumBlockSizeFor(A) .. ConfigMaxBlock : b % A = 0}

ConfigRequests == {1, 8, 24}

\* Malloc(n) served from a free block of blockSize bytes in a build with
\* alignment A; the sizes come out in last.stats.
ConfigCall(A, blockSize, n) ==
    /\ last.op \in {"Heap4", "Config"}
    /\ last' = Call("Config", n, A, NoResult(FALSE, 0),
                    MallocBlockSizesFor(A, blockSize, n), Heap, NoCall)
    /\ UNCHANGED <<hvars, buffer, ovars, allocated, tvars>>

NextConfig ==
    \/ \E A \in Alignments : \E b \in ConfigBlockSizes(A) :
           \E n \in 1 .. ConfigMaxRequest : ConfigCall(A, b, n)
    \/ \E n \in ConfigRequests : MallocCall(n)
    \/ \E pv \in Addrs \cup {NULL} : FreeCall(pv)

SpecConfig == Init /\ [][NextConfig]_vars

(* ============================ the claims =============================== *)

H == _size_of_heap_block_linklist_element

\* The aligned start of the heap and the free size fixed at construction.
HeapStart == Heap4(buffer.begin, buffer.size).mem[HeadAddr].next

InitialFree == Heap4(buffer.begin, buffer.size).free

\* The bytes of the block whose header is at address a.
Region(a) == a .. (a + ClearAllocatedBit(mem[a].size) - 1)

\* The headers of the blocks handed out and not yet freed.
LiveBlocks == {pv - H : pv \in allocated}

\* The set of the free blocks' addresses.
FreeSet == {FreeBlocks(Heap)[i] : i \in 1 .. Len(FreeBlocks(Heap))}

\* The request size with header and padding, computed without wrap-around.
Adjusted(n) == n + H + (portBYTE_ALIGNMENT - (n % portBYTE_ALIGNMENT))

\* C1: after any sequence of completed Malloc, Free and Calloc calls,
\* xFreeBytesRemaining equals the sum of the sizes of the blocks reachable
\* from head, the two sentinels excluded.
C1_SumInvariant ==
    xFreeBytesRemaining = SumSizes(mem, FreeBlocks(Heap))

\* C1 witness: a Free has completed and left several free blocks next to live ones.
C1_Witness ==
    /\ last.op = "Free" /\ last.arg # NULL
    /\ Len(FreeBlocks(Heap)) >= 2
    /\ allocated # {}
    /\ xNumberOfSuccessfulFrees >= 2

\* C2: the regions of the blocks handed out are pairwise disjoint, disjoint
\* from every free block and from the tail sentinel, and lie between the
\* aligned start and the tail sentinel.
C2_LiveBlocksDisjoint ==
    /\ \A a \in LiveBlocks :
          /\ Region(a) # {}
          /\ \A x \in Region(a) : HeapStart <= x /\ x < _tail_element
          /\ \A b \in LiveBlocks \ {a} : Region(a) \cap Region(b) = {}
          /\ \A f \in FreeSet : Region(a) \cap Region(f) = {}
    /\ Cardinality(LiveBlocks) = Cardinality(allocated)

\* C2 witness: three blocks are handed out and a free block lies between two of them.
C2_Witness ==
    /\ Cardinality(allocated) >= 3
    /\ \E f \in FreeSet : \E a, b \in LiveBlocks : a < f /\ f < b

\* C3: no two blocks of the free list are memory-adjacent: for consecutive
\* free blocks B, next (next not the tail) address(B) + size(B) < address(next).
C3_NoAdjacentFree ==
    LET l == FreeBlocks(Heap)
    IN  \A i \in 1 .. (Len(l) - 1) : l[i] + mem[l[i]].size < l[i + 1]

\* C3 witness: a Free has merged the block with a neighbour (the number of
\* free blocks did not grow) while another free block stays apart.
C3_Witness ==
    /\ last.op = "Free" /\ last.arg # NULL
    /\ Len(FreeBlocks(Heap)) <= last.blocks0
    /\ Len(FreeBlocks(Heap)) >= 2

\* C4: the free list from head is a finite acyclic chain, strictly ascending
\* in address, ending at the tail sentinel, the only node with a null link.
C4_ListWellFormed ==
    LET l == ListNodes(Heap)
    IN  /\ Len(l) >= 2
        /\ Len(l) <= Cardinality(DOMAIN mem)
        /\ l[1] = HeadAddr
        /\ l[Len(l)] = _tail_element
        /\ mem[_tail_element].next = NULL
        /\ \A i \in 1 .. (Len(l) - 1) : mem[l[i]].next # NULL
        /\ \A i \in 2 .. (Len(l) - 1) : l[i] < l[i + 1]

\* C4 witness: a block was freed in front of another free block and linked
\* before it without merging, so the list has grown at its front.
C4_Witness ==
    /\ last.op = "Free" /\ last.arg # NULL
    /\ Len(FreeBlocks(Heap)) >= 2
    /\ Len(FreeBlocks(Heap)) = last.blocks0 + 1
    /\ FreeBlocks(Heap)[1] = last.arg - H

\* The steps of Malloc and Free that read or write the free list or the counters.
TouchesList(pc) == pc \in {"M_search", "M_take", "F_add", "F_insert"}

\* The heap is what the calls, run one after another in the order of their
\* list updates, have made of it; only the header of a block whose Free has
\* cleared the allocation bit and not yet entered the section differs.
SerialAgrees ==
    /\ xFreeBytesRemaining = serial.free
    /\ xMinimumEverFreeBytesRemaining = serial.min
    /\ xNumberOfSuccessfulAllocations = serial.nalloc
    /\ xNumberOfSuccessfulFrees = serial.nfree
    /\ \A a \in Addrs :
          \/ mem[a] = serial.mem[a]
          \/ \E t \in Tasks :
                /\ task[t].pc = "F_suspend" /\ task[t].blk = a
                /\ mem[a] = [serial.mem[a] EXCEPT !.size = ClearAllocatedBit(@)]

\* C5: with tasks preempting one another outside the suspended sections,
\* at most one task is at a step that touches the list and it is the one
\* that suspended the scheduler; every Malloc returns what it returns in
\* the serial order of the calls; and whenever no task holds the section
\* the heap is the serial one and the sum, address-order and
\* no-adjacent-free invariants hold.
C5_Serializable ==
    /\ \A t \in Tasks :
          TouchesList(task[t].pc)
              => /\ uxSchedulerSuspended > 0
                 /\ pxCurrentTCB = t
                 /\ \A u \in Tasks \ {t} : ~TouchesList(task[u].pc)
    /\ \A t \in Tasks :
          task[t].pc \in {"M_resume", "M_return"} => task[t].ret = task[t].sret
    /\ uxSchedulerSuspended = 0
          => /\ SerialAgrees
             /\ C1_SumInvariant
             /\ C3_NoAdjacentFree
             /\ C4_ListWellFormed

\* C5 witness: one task is inside Malloc's section, about to take a block,
\* while another was preempted in Free between clearing the allocation bit
\* and suspending the scheduler.
C5_Witness ==
    \E t, u \in Tasks :
        /\ task[t].pc = "M_take"
        /\ task[u].pc = "F_suspend"
        /\ Len(FreeBlocks(Heap)) >= 2

\* C6: Malloc(n) that succeeds, immediately followed by Free of the pointer
\* it returned, restores xFreeBytesRemaining and the number of free blocks.
C6_RoundTrip ==
    (last.op = "Free" /\ last.before.ret # NULL /\ last.arg = last.before.ret)
        => /\ xFreeBytesRemaining = last.before.free0
           /\ Len(FreeBlocks(Heap)) = last.before.blocks0

\* C6 witness: such a Malloc/Free pair has run in a fragmented heap.
C6_Witness ==
    /\ last.op = "Free" /\ last.before.ret # NULL /\ last.arg = last.before.ret
    /\ last.before.blocks0 >= 2
    /\ allocated # {}

\* C7: once every allocated block has been freed, in whatever order,
\* xFreeBytesRemaining is back at its value at construction and the free
\* list is one block from the aligned start up to the tail sentinel.
C7_FullCoalescence ==
    allocated = {}
        => /\ xFreeBytesRemaining = InitialFree
           /\ FreeBlocks(Heap) = <<HeapStart>>
           /\ mem[HeapStart].size = _tail_element - HeapStart
           /\ mem[HeapStart].next = _tail_element

\* C7 witness: three blocks were allocated and all of them freed, the
\* lowest one last.
C7_Witness ==
    /\ allocated = {}
    /\ xNumberOfSuccessfulFrees >= 3
    /\ last.op = "Free" /\ last.arg = HeapStart + H
    /\ last.blocks0 = 1

\* C8: a successful Malloc(n) takes the lowest-address free block whose
\* size is >= the adjusted size: no free block below it is large enough.
C8_FirstFit ==
    [][(last'.op = "Malloc" /\ last'.ret # NULL)
          => LET pxBlock == last'.ret - H
                 want == MallocAdjust(last'.arg)
             IN  /\ pxBlock \in FreeSet
                 /\ mem[pxBlock].size >= want
                 /\ \A b \in FreeSet : b < pxBlock => mem[b].size < want]_vars

\* C8 witness: Malloc took a lower block although a higher free block
\* fits the request more tightly.
C8_Witness ==
    /\ last.op = "Malloc" /\ last.ret # NULL
    /\ \E b \in FreeSet :
          /\ b > last.ret
          /\ mem[b].size >= MallocAdjust(last.arg)
          /\ mem[b].size < ClearAllocatedBit(mem[last.ret - H].size)

\* C9: for n > 0, Malloc(n) returns non-null exactly when the adjusted size
\* does not overflow, has its top bit clear, and some single free block is
\* at least that large.
C9_SucceedsIffBlockFits ==
    [][(last'.op = "Malloc" /\ last'.arg > 0)
          => (last'.ret # NULL
                <=> /\ Adjusted(last'.arg) <= _heap_size_max
                    /\ Adjusted(last'.arg) < _heap_block_allocated_bitmask
                    /\ \E b \in FreeSet : mem[b].size >= Adjusted(last'.arg))]_vars

\* C9 witness: Malloc returned null although xFreeBytesRemaining is at
\* least the adjusted size: the free space is in smaller pieces.
C9_Witness ==
    /\ last.op = "Malloc" /\ last.arg > 0 /\ last.ret = NULL
    /\ Adjusted(last.arg) <= xFreeBytesRemaining
    /\ Len(FreeBlocks(Heap)) >= 2

\* C10: for a successful Malloc(n) the pointer returned is one aligned
\* header size past the header of the block marked allocated, the block
\* holds at least n bytes after its header, the pointer and every free
\* block header are aligned, and no alignment assertion fired.
C10_ReturnedPointer ==
    (last.op = "Malloc" /\ last.ret # NULL)
        => LET pxBlock == last.ret - H
           IN  /\ SizeIsAllocated(mem[pxBlock].size)
               /\ mem[pxBlock].next = NULL
               /\ pxBlock \notin FreeSet
               /\ ClearAllocatedBit(mem[pxBlock].size) - H >= last.arg
               /\ last.ret % portBYTE_ALIGNMENT = 0
               /\ \A b \in FreeSet : b % portBYTE_ALIGNMENT = 0
               /\ ~last.asserted

\* C10 witness: a Malloc of a size that is no multiple of the alignment
\* succeeded by splitting a block.
C10_Witness ==
    /\ last.op = "Malloc" /\ last.ret # NULL
    /\ last.arg % portBYTE_ALIGNMENT # 0
    /\ last.blocks0 = Len(FreeBlocks(Heap))
    /\ (last.ret - H) + MallocAdjust(last.arg) \in FreeSet
\* C11: whenever Malloc returns null (request too large, overflow, top bit
\* set, no fitting block) the free list, every header, the four counters
\* and the set of blocks handed out are what they were before the call.
C11_FailedMallocChangesNothing ==
    [][(last'.op = "Malloc" /\ last'.ret = NULL)
          => UNCHANGED <<hvars, allocated>>]_vars

\* C11 witness: a Malloc of a positive size has failed in a heap that has
\* seen allocations and frees and still holds live blocks.
C11_Witness ==
    /\ last.op = "Malloc" /\ last.ret = NULL /\ last.arg > 0
    /\ allocated # {}
    /\ xNumberOfSuccessfulFrees >= 1
    /\ xMinimumEverFreeBytesRemaining < xFreeBytesRemaining

\* C12 as the specification states it: Malloc(0) on a heap with free
\* space returns a non-null pointer.
C12_MallocZeroSucceeds ==
    (last.op = "Malloc" /\ last.arg = 0 /\ last.free0 > 0) => last.ret # NULL

\* C12: Malloc(0) returns null in every state, also with free space: the
\* adjustment is skipped, the size stays 0 and fails the test xWantedSize > 0;
\* no block is taken and the heap is unchanged.
C12_MallocZeroFails ==
    [][(last'.op = "Malloc" /\ last'.arg = 0)
          => (last'.ret = NULL /\ UNCHANGED <<hvars, allocated>>)]_vars

\* C12 witness: Malloc(0) has returned on a heap with a free block of at
\* least the minimum block size.
C12_Witness ==
    /\ last.op = "Malloc" /\ last.arg = 0
    /\ last.free0 >= _heap_minimum_block_size
    /\ \E b \in FreeSet : mem[b].size >= _heap_minimum_block_size

\* C13: for every n whose sum with the header size and the padding exceeds
\* the largest size_t, Malloc(n) returns null and takes no block.
C13_OverflowReturnsNull ==
    [][(last'.op = "Malloc" /\ Adjusted(last'.arg) > _heap_size_max)
          => (last'.ret = NULL /\ UNCHANGED hvars)]_vars

\* C13 witness: such a Malloc has returned, and the sum taken modulo 2^w
\* is a size the heap could have served.
C13_Witness ==
    /\ last.op = "Malloc" /\ Adjusted(last.arg) > _heap_size_max
    /\ Wrap(Adjusted(last.arg)) > 0
    /\ \E b \in FreeSet : mem[b].size >= Wrap(Adjusted(last.arg))

\* C14: a Malloc whose adjusted size has the most-significant bit set
\* returns null; no block of the free list has the bit in its size; and a
\* header that has the bit is the header of a block handed out.
C14_TopBitOnlyMarksAllocation ==
    /\ (/\ last.op = "Malloc"
        /\ Adjusted(last.arg) <= _heap_size_max
        /\ SizeIsAllocated(Adjusted(last.arg))) => last.ret = NULL
    /\ \A b \in FreeSet : ~SizeIsAllocated(mem[b].size)
    /\ \A a \in DOMAIN mem : SizeIsAllocated(mem[a].size) => a \in LiveBlocks

\* C14 witness: a Malloc whose adjusted size has the top bit set has
\* returned in a heap with free blocks and with blocks freed before.
C14_Witness ==
    /\ last.op = "Malloc"
    /\ Adjusted(last.arg) <= _heap_size_max
    /\ SizeIsAllocated(Adjusted(last.arg))
    /\ allocated # {}
    /\ FreeSet # {}
    /\ xNumberOfSuccessfulFrees >= 1

\* C15: when xNum * xSize exceeds the largest size_t, Calloc returns null
\* without calling Malloc (the scheduler is never suspended), and the free
\* list, the headers and the counters are unchanged.
C15_CallocOverflow ==
    [][(last'.op = "Calloc" /\ last'.arg * last'.arg2 > _heap_size_max)
          => /\ last'.ret = NULL
             /\ last'.sections = 0
             /\ UNCHANGED <<hvars, allocated>>]_vars

\* C15 witness: such a Calloc has returned, and the product taken modulo
\* 2^w is a size the heap could have served.
C15_Witness ==
    /\ last.op = "Calloc" /\ last.arg * last.arg2 > _heap_size_max
    /\ Wrap(last.arg * last.arg2) > 0
    /\ \E b \in FreeSet : mem[b].size >= Adjusted(Wrap(last.arg * last.arg2))

\* The free list (blocks and sizes) and the counters of two heap records agree.
SameListAndCounters(h1, h2) ==
    /\ FreeBlocks(h1) = FreeBlocks(h2)
    /\ \A i \in 1 .. Len(FreeBlocks(h1)) :
          h1.mem[FreeBlocks(h1)[i]].size = h2.mem[FreeBlocks(h2)[i]].size
    /\ h1.free = h2.free /\ h1.min = h2.min
    /\ h1.nalloc = h2.nalloc /\ h1.nfree = h2.nfree

\* Calloc(xNum, xSize) with result ret took heap record h to hNext as
\* Malloc(xNum * xSize) on h does, with the same null or non-null result.
CallocLikeMalloc(h, hNext, xNum, xSize, ret) ==
    LET r == Malloc(h, xNum * xSize)
    IN  /\ (ret = NULL) <=> (r.ret = NULL)
        /\ SameListAndCounters(hNext, r.heap)

\* C16 as the specification states it: a Calloc whose product does not
\* overflow, called on a heap (the default one or the second one), returns
\* null exactly when Malloc(xNum * xSize) on that heap would, has that
\* Malloc's effect on that heap's free list and counters, and the headers
\* that lie in the region returned read zero.
C16_CallocAsMalloc ==
    [][/\ (last'.op = "Calloc" /\ last'.arg * last'.arg2 <= _heap_size_max)
            => /\ CallocLikeMalloc(Heap,
                                   [mem |-> mem', tail |-> _tail_element',
                                    free |-> xFreeBytesRemaining',
                                    min |-> xMinimumEverFreeBytesRemaining',
                                    nalloc |-> xNumberOfSuccessfulAllocations',
                                    nfree |-> xNumberOfSuccessfulFrees'],
                                   last'.arg, last'.arg2, last'.ret)
               /\ \A a \in DOMAIN mem :
                     (last'.ret # NULL /\ a >= last'.ret
                        /\ a + SizeofBlockLink <= last'.ret + last'.arg * last'.arg2)
                        => mem'[a] = ZeroLink
       /\ (last'.op = "Other.Calloc" /\ last'.arg * last'.arg2 <= _heap_size_max)
            => CallocLikeMalloc(other, other', last'.arg, last'.arg2, last'.ret)]_vars

\* C17: Free(NULL) never suspends the scheduler, fires no assertion and
\* leaves the free list, every header and the four counters unchanged.
C17_FreeNullNoOp ==
    [][(last'.op = "Free" /\ last'.arg = NULL)
          => /\ last'.sections = 0
             /\ ~last'.asserted
             /\ UNCHANGED <<hvars, allocated>>]_vars

\* C17 witness: Free(NULL) has returned in a heap with live blocks and a
\* fragmented free list.
C17_Witness ==
    /\ last.op = "Free" /\ last.arg = NULL
    /\ allocated # {}
    /\ Len(FreeBlocks(Heap)) >= 2

\* C18 as the specification states it: a Free whose check of the header
\* fails (block not marked allocated, or link not null) never returns to
\* its caller: no completed call is such a Free.
C18_BadFreeIsFatal ==
    ~(last.op = "Free" /\ last.arg # NULL /\ last.asserted)

\* C19 as the specification states it: every step of Malloc or Free that
\* writes a header, the head's link or a counter is taken while the
\* scheduler is suspended.
C19_WritesInsideSection ==
    [][hvars' # hvars => uxSchedulerSuspended > 0]_vars

\* C19: every write of Malloc or Free to a header, to the head's link or to
\* a counter is made while the scheduler is suspended, except one: Free
\* clears the allocation bit in the header of the block it is freeing
\* before it suspends the scheduler; that block is in no list.
C19_WritesInsideSectionButFlag ==
    [][hvars' # hvars
          => \/ uxSchedulerSuspended > 0
             \/ \E t \in Tasks :
                   /\ Running(t, "F_clear")
                   /\ task[t].blk \notin FreeSet
                   /\ mem' = [mem EXCEPT ![task[t].blk].size = ClearAllocatedBit(@)]
                   /\ UNCHANGED <<_tail_element, xFreeBytesRemaining,
                                  xMinimumEverFreeBytesRemaining,
                                  xNumberOfSuccessfulAllocations,
                                  xNumberOfSuccessfulFrees>>]_vars

\* C19 witness: a task has cleared the allocation bit of the block it is
\* freeing and was preempted before it suspended the scheduler.
C19_Witness ==
    \E t \in Tasks :
        /\ task[t].pc = "F_suspend"
        /\ pxCurrentTCB # t
        /\ uxSchedulerSuspended = 0
        /\ ~SizeIsAllocated(mem[task[t].blk].size)

\* C20: GetHeapStats changes no link, no size and no counter, and a
\* GetHeapStats that directly follows another returns the same seven values.
C20_GetStatsPure ==
    [][last'.op = "GetHeapStats"
          => /\ UNCHANGED <<hvars, allocated>>
             /\ last.op = "GetHeapStats" => last'.stats = last.stats]_vars

\* C20 witness: GetHeapStats has returned in a fragmented heap whose
\* low-water mark lies below its free bytes.
C20_Witness ==
    /\ last.op = "GetHeapStats"
    /\ last.stats.xNumberOfFreeBlocks >= 2
    /\ last.stats.xMinimumEverFreeBytesRemaining
          < last.stats.xAvailableHeapSpaceInBytes
\* The heap record of the state a step leads to.
HeapAfter ==
    [mem |-> mem', tail |-> _tail_element', free |-> xFreeBytesRemaining',
     min |-> xMinimumEverFreeBytesRemaining',
     nalloc |-> xNumberOfSuccessfulAllocations',
     nfree |-> xNumberOfSuccessfulFrees']

\* The sizes of the free blocks.
FreeSizes == {mem[b].size : b \in FreeSet}

\* C21: GetHeapStats reports the number of blocks between head and tail,
\* the largest of their sizes (0 for an empty list), the smallest of their
\* sizes (portMAX_DELAY for an empty list), xFreeBytesRemaining, the two
\* success counters and the low-water mark.
C21_StatsValues ==
    last.op = "GetHeapStats"
        => /\ last.stats.xNumberOfFreeBlocks = Cardinality(FreeSet)
           /\ last.stats.xSizeOfLargestFreeBlockInBytes =
                 (IF FreeSet = {} THEN 0
                  ELSE CHOOSE x \in FreeSizes : \A y \in FreeSizes : y <= x)
           /\ last.stats.xSizeOfSmallestFreeBlockInBytes =
                 (IF FreeSet = {} THEN portMAX_DELAY
                  ELSE CHOOSE x \in FreeSizes : \A y \in FreeSizes : x <= y)
           /\ last.stats.xAvailableHeapSpaceInBytes = xFreeBytesRemaining
           /\ last.stats.xNumberOfSuccessfulAllocations = xNumberOfSuccessfulAllocations
           /\ last.stats.xNumberOfSuccessfulFrees = xNumberOfSuccessfulFrees
           /\ last.stats.xMinimumEverFreeBytesRemaining = xMinimumEverFreeBytesRemaining

\* C21 witness: GetHeapStats has returned in a heap whose free blocks
\* have different sizes, next to blocks handed out.
C21_Witness ==
    /\ last.op = "GetHeapStats"
    /\ Cardinality(FreeSizes) >= 2
    /\ allocated # {}

\* C22: xMinimumEverFreeBytesRemaining is the smallest value
\* xFreeBytesRemaining has had since construction: it is at most
\* xFreeBytesRemaining, every call leaves it at the smaller of its old value
\* and the new free bytes, only a successful allocation lowers it, and Free
\* does not change it.
C22_LowWaterMark ==
    [][/\ xMinimumEverFreeBytesRemaining <= xFreeBytesRemaining
       /\ xMinimumEverFreeBytesRemaining' <= xFreeBytesRemaining'
       /\ xMinimumEverFreeBytesRemaining' =
             (IF xFreeBytesRemaining' < xMinimumEverFreeBytesRemaining
              THEN xFreeBytesRemaining' ELSE xMinimumEverFreeBytesRemaining)
       /\ xMinimumEverFreeBytesRemaining' # xMinimumEverFreeBytesRemaining
             => (last'.op \in {"Malloc", "Calloc"} /\ last'.ret # NULL)
       /\ last'.op = "Free"
             => xMinimumEverFreeBytesRemaining' = xMinimumEverFreeBytesRemaining]_vars

\* C22 witness: after frees, a Malloc has succeeded without reaching the
\* low-water mark, and an earlier one had lowered it.
C22_Witness ==
    /\ last.op = "Malloc" /\ last.ret # NULL
    /\ xMinimumEverFreeBytesRemaining < xFreeBytesRemaining
    /\ xMinimumEverFreeBytesRemaining < InitialFree
    /\ xNumberOfSuccessfulFrees >= 1
\* What the constructor is to compute from the buffer, in plain arithmetic.
C23_Start == ((buffer.begin + portBYTE_ALIGNMENT - 1) \div portBYTE_ALIGNMENT)
                 * portBYTE_ALIGNMENT

C23_Remaining == buffer.size - (C23_Start - buffer.begin)

C23_Tail == ((C23_Start + C23_Remaining - H) \div portBYTE_ALIGNMENT)
                 * portBYTE_ALIGNMENT

C23_Constructed ==
    /\ mem[HeadAddr] = [next |-> C23_Start, size |-> 0]
    /\ _tail_element = C23_Tail
    /\ C23_Tail >= buffer.begin
    /\ C23_Tail + H <= buffer.begin + buffer.size
    /\ mem[C23_Tail] = [next |-> NULL, size |-> 0]
    /\ mem[C23_Start] = [next |-> C23_Tail, size |-> C23_Tail - C23_Start]
    /\ FreeBlocks(Heap) = <<C23_Start>>
    /\ xFreeBytesRemaining = C23_Tail - C23_Start
    /\ xMinimumEverFreeBytesRemaining = C23_Tail - C23_Start
    /\ xNumberOfSuccessfulAllocations = 0
    /\ xNumberOfSuccessfulFrees = 0

\* C23 as stated: for every buffer address and every length large enough to
\* hold the tail sentinel, construction yields start, tail, the two
\* sentinels, one free block of tail - start bytes, both byte counts equal
\* to it and both success counters 0.
C23_EveryLengthHoldingTail ==
    (last.op = "Heap4" /\ C23_Remaining >= H) => C23_Constructed

\* C23, amended: the same for every length that leaves at least one
\* alignment unit in front of the tail sentinel, so that the first block
\* and the sentinel are different headers.
C23_EveryLengthHoldingABlock ==
    (last.op = "Heap4" /\ C23_Remaining >= H + portBYTE_ALIGNMENT) => C23_Constructed

\* C23 witness: a heap constructed over a buffer whose address and whose end
\* are both unaligned.
C23_Witness ==
    /\ last.op = "Heap4"
    /\ buffer.begin % portBYTE_ALIGNMENT # 0
    /\ (buffer.begin + buffer.size) % portBYTE_ALIGNMENT # 0
    /\ C23_Remaining >= H + portBYTE_ALIGNMENT
    /\ xFreeBytesRemaining > 0
\* Every block of the heap, free or handed out, has a size that is a
\* multiple of the alignment and at least the minimum block size.
C24_HeapBlocks ==
    \A b \in FreeSet \cup LiveBlocks :
        /\ ClearAllocatedBit(mem[b].size) % portBYTE_ALIGNMENT = 0
        /\ ClearAllocatedBit(mem[b].size) >= _heap_minimum_block_size

\* The blocks a served request leaves behind under alignment last.arg2.
C24_ConfigBlocks ==
    /\ last.stats.taken % last.arg2 = 0
    /\ last.stats.taken >= MinimumBlockSizeFor(last.arg2)
    /\ last.stats.left > 0
          => /\ last.stats.left % last.arg2 = 0
             /\ last.stats.left >= MinimumBlockSizeFor(last.arg2)

C25_WholeBufferNeverFits ==
    (/\ last.op = "Malloc"
     /\ \/ last.arg > buffer.size
        \/ last.arg = buffer.size /\ last.free0 = InitialFree)
        => last.ret = NULL

\* C25 witness: Malloc(S) has been called on the fresh heap and has
\* returned null.
C25_Witness ==
    /\ last.op = "Malloc"
    /\ last.arg = buffer.size
    /\ last.free0 = InitialFree
    /\ xNumberOfSuccessfulAllocations = 0
    /\ last.ret = NULL

\* C26: once every block handed out has been freed, Malloc(n) succeeds for
\* every n for which it succeeds on the fresh heap, whatever was allocated
\* and freed before and in whatever order: exhaustion is recoverable by
\* freeing.
C26_FreeingRecovers ==
    [][(/\ last'.op = "Malloc"
        /\ allocated = {}
        /\ Malloc(Heap4(buffer.begin, buffer.size), last'.arg).ret # NULL)
           => last'.ret # NULL]_vars

\* C26 witness: the heap had been filled until fewer bytes were free than
\* the request needs, every block was freed, and Malloc of that size has
\* succeeded again.
C26_Witness ==
    /\ last.op = "Malloc" /\ last.ret # NULL
    /\ allocated = {last.ret}
    /\ xNumberOfSuccessfulAllocations >= 3
    /\ xNumberOfSuccessfulFrees = xNumberOfSuccessfulAllocations - 1
    /\ xMinimumEverFreeBytesRemaining < Adjusted(last.arg)

\* C27: a successful Malloc(n) takes from xFreeBytesRemaining exactly the
\* size recorded in the returned block; that size is at least
\* adj(n) = n + H + (A - n mod A), and is adj(n) when the block was split
\* (the number of free blocks stayed the same); Free of a pointer gives
\* back exactly the size recorded in its block.
C27_ChargedSize ==
    [][/\ (last'.op = "Malloc" /\ last'.ret # NULL)
            => LET sz == ClearAllocatedBit(mem'[last'.ret - H].size)
               IN  /\ xFreeBytesRemaining - xFreeBytesRemaining' = sz
                   /\ sz >= Adjusted(last'.arg)
                   /\ Len(FreeBlocks(HeapAfter)) = last'.blocks0
                         => sz = Adjusted(last'.arg)
       /\ (last'.op = "Free" /\ last'.arg # NULL)
            => xFreeBytesRemaining' - xFreeBytesRemaining =
                   ClearAllocatedBit(mem[last'.arg - H].size)]_vars

\* C27 witness: a request that is a multiple of the alignment was served by
\* a split, and the pointer has been freed by the next call, which brought
\* xFreeBytesRemaining back to what it was.
C27_Witness ==
    /\ last.op = "Free"
    /\ last.before.ret = last.arg /\ last.arg # NULL
    /\ xFreeBytesRemaining = last.before.free0
    /\ last.free0 + Adjusted(portBYTE_ALIGNMENT) = last.before.free0
    /\ xNumberOfSuccessfulAllocations >= 2
\* C28: with the hook enabled, a Malloc call reaches its return through
\* exactly one call of the hook if it returns null and through none
\* otherwise; the hook is called only after xTaskResumeAll, with the
\* scheduler not suspended.
C28_HookOncePerFailure ==
    [][\A t \in Tasks :
          /\ (task[t].pc # "M_return" /\ task'[t].pc = "M_return")
                => /\ (task[t].pc = "M_hook") <=> (task[t].ret = NULL)
                   /\ task[t].pc \in {"M_hook", "M_resume"}
          /\ (task[t].pc # "M_hook" /\ task'[t].pc = "M_hook")
                => task[t].pc = "M_resume"
          /\ (task[t].pc = "M_hook" /\ task'[t].pc # "M_hook")
                => /\ task'[t].pc = "M_return"
                   /\ last'.op = "vApplicationMallocFailedHook"
                   /\ last'.sections = 0
                   /\ uxSchedulerSuspended = 0
          /\ (last' # last /\ last'.op = "vApplicationMallocFailedHook")
                => \E u \in Tasks : task[u].pc = "M_hook" /\ task'[u].pc = "M_return"]_vars

\* C28 witness: the hook has been called for one task's failed Malloc
\* while blocks are handed out and the other task is inside Malloc.
C28_Witness ==
    /\ last.op = "vApplicationMallocFailedHook"
    /\ allocated # {}
    /\ \E t \in Tasks : task[t].pc = "M_return" /\ task[t].ret = NULL /\ task[t].arg > 0
    /\ \E t \in Tasks : task[t].pc \in {"M_suspend", "M_hook", "M_return"}
                         /\ pxCurrentTCB # t

\* The steps inside the exclusive section: after vTaskSuspendAll, up to
\* xTaskResumeAll.
C29_SectionPcs == {"M_search", "M_take", "M_resume", "F_add", "F_insert", "F_resume"}

RECURSIVE C29_SearchStops(_, _, _, _, _)
\* Malloc's search from pxBlock stops within fuel steps, on a block or on
\* the tail, without reading through a null link.
C29_SearchStops(m, tail, pxBlock, want, fuel) ==
    IF fuel = 0 \/ pxBlock = NULL \/ pxBlock \notin DOMAIN m
    THEN FALSE
    ELSE IF m[pxBlock].size < want /\ m[pxBlock].next # NULL
         THEN C29_SearchStops(m, tail, m[pxBlock].next, want, fuel - 1)
         ELSE m[pxBlock].next = NULL => pxBlock = tail

RECURSIVE C29_InsertStops(_, _, _, _, _)
\* The insertion scan for blk stops within fuel steps on a node before the
\* tail, without reading through a null link.
C29_InsertStops(m, tail, pxIterator, blk, fuel) ==
    IF fuel = 0 \/ pxIterator = NULL \/ pxIterator \notin DOMAIN m \/ pxIterator = tail
    THEN FALSE
    ELSE IF m[pxIterator].next < blk
         THEN C29_InsertStops(m, tail, m[pxIterator].next, blk, fuel - 1)
         ELSE TRUE

RECURSIVE C29_StatsStops(_, _, _, _)
\* The scan of GetHeapStats reaches the tail within fuel steps.
C29_StatsStops(m, tail, pxBlock, fuel) ==
    IF pxBlock = tail
    THEN TRUE
    ELSE IF fuel = 0 \/ pxBlock = NULL \/ pxBlock \notin DOMAIN m
         THEN FALSE
         ELSE C29_StatsStops(m, tail, m[pxBlock].next, fuel - 1)

\* C29: in every state the allocator can be in, also between the steps of
\* calls that tasks have in progress, the search of any Malloc, the
\* insertion scan for any block that is held or being freed and the scan of
\* GetHeapStats stop at or before the tail without following a null link;
\* the scheduler is suspended exactly while one task is between its
\* vTaskSuspendAll and its xTaskResumeAll, never more than once.
C29_ScansStopSectionsMatch ==
    /\ \A n \in TaskRequests :
          C29_SearchStops(mem, _tail_element, mem[HeadAddr].next, MallocAdjust(n),
                          Cardinality(DOMAIN mem))
    /\ \A b \in LiveBlocks \cup {task[t].blk : t \in {u \in Tasks : task[u].pc \in
                                    {"F_check", "F_clear", "F_suspend", "F_add", "F_insert"}}} :
          C29_InsertStops(mem, _tail_element, HeadAddr, b, Cardinality(DOMAIN mem))
    /\ C29_StatsStops(mem, _tail_element, mem[HeadAddr].next, Cardinality(DOMAIN mem))
    /\ uxSchedulerSuspended = Cardinality({t \in Tasks : task[t].pc \in C29_SectionPcs})
    /\ uxSchedulerSuspended <= 1

\* C29 witness: one task is inside the section about to insert a block
\* into a list of two free blocks while the other task has a call in
\* progress outside it.
C29_Witness ==
    /\ uxSchedulerSuspended = 1
    /\ \E t \in Tasks : task[t].pc = "F_insert"
    /\ \E t \in Tasks : task[t].pc \in {"M_suspend", "F_check", "F_clear", "F_suspend"}
    /\ Len(FreeBlocks(Heap)) >= 2
    /\ allocated # {}

\* C30: every block handed out and not yet freed has the top bit of its
\* size set and a null link; every block reachable from head has the top
\* bit clear; no block handed out is reachable from head.
C30_AllocatedMarkedAndUnlinked ==
    /\ \A b \in LiveBlocks :
          /\ SizeIsAllocated(mem[b].size)
          /\ mem[b].next = NULL
    /\ \A i \in 1 .. Len(ListNodes(Heap)) :
          ~SizeIsAllocated(mem[ListNodes(Heap)[i]].size)
    /\ \A i \in 1 .. Len(ListNodes(Heap)) : ListNodes(Heap)[i] \notin LiveBlocks

\* C30 witness: Calloc has handed out a zeroed block next to other blocks
\* handed out, with free blocks on both sides of one of them.
C30_Witness ==
    /\ last.op = "Calloc" /\ last.ret # NULL
    /\ Cardinality(allocated) >= 2
    /\ Len(FreeBlocks(Heap)) >= 2
    /\ xNumberOfSuccessfulFrees >= 1
\* The free blocks and all blocks, before and after a step.
FreeSetAfter == {FreeBlocks(HeapAfter)[i] : i \in 1 .. Len(FreeBlocks(HeapAfter))}

ListSetAfter == {ListNodes(HeapAfter)[i] : i \in 1 .. Len(ListNodes(HeapAfter))}

AllBlocks == FreeSet \cup LiveBlocks

AllBlocksAfter == FreeSetAfter \cup {pv - H : pv \in allocated'}

\* C31: Malloc splits the chosen block only when its size exceeds the
\* adjusted request by more than the minimum block size: then the block
\* handed out has exactly the adjusted size and a free block with the
\* leftover starts right behind it; otherwise the whole block is handed
\* out with its size, no free block is created and xFreeBytesRemaining
\* goes down by the full size.
C31_SplitRule ==
    [][(last'.op = "Malloc" /\ last'.ret # NULL)
          => LET b == last'.ret - H
                 orig == mem[b].size
                 adj == Adjusted(last'.arg)
             IN  /\ b \in FreeSet
                 /\ orig >= adj
                 /\ orig - adj > _heap_minimum_block_size
                       => /\ ClearAllocatedBit(mem'[b].size) = adj
                          /\ FreeSetAfter = (FreeSet \ {b}) \cup {b + adj}
                          /\ mem'[b + adj].size = orig - adj
                          /\ xFreeBytesRemaining' = xFreeBytesRemaining - adj
                 /\ orig - adj <= _heap_minimum_block_size
                       => /\ ClearAllocatedBit(mem'[b].size) = orig
                          /\ FreeSetAfter = FreeSet \ {b}
                          /\ xFreeBytesRemaining' = xFreeBytesRemaining - orig]_vars

\* C31 witness: a block that exceeds the adjusted request by exactly the
\* minimum block size has been handed out whole.
C31_Witness ==
    /\ last.op = "Malloc" /\ last.ret # NULL
    /\ ClearAllocatedBit(mem[last.ret - H].size)
          = Adjusted(last.arg) + _heap_minimum_block_size
    /\ Len(FreeBlocks(Heap)) = last.blocks0 - 1

\* C32: Free of a held block changes the number of free blocks by +1, 0 or
\* -1 as none, one or both of its address-neighbours are free; the block
\* that results starts at the free predecessor, if any, and has the sum of
\* the sizes; no node is linked to itself and no merged-away block stays
\* reachable from head.
C32_FreeMerges ==
    [][(last'.op = "Free" /\ last'.arg # NULL)
          => LET b == last'.arg - H
                 sz == ClearAllocatedBit(mem[b].size)
                 left == {f \in FreeSet : f + mem[f].size = b}
                 right == {f \in FreeSet : f = b + sz}
                 start == IF left = {} THEN b ELSE CHOOSE f \in left : TRUE
                 total == sz + (IF left = {} THEN 0 ELSE mem[start].size)
                             + (IF right = {} THEN 0 ELSE mem[b + sz].size)
             IN  /\ Len(FreeBlocks(HeapAfter))
                       = Len(FreeBlocks(Heap)) + 1 - Cardinality(left) - Cardinality(right)
                 /\ FreeSetAfter = ((FreeSet \ right) \cup {start})
                 /\ mem'[start].size = total
                 /\ \A a \in ListSetAfter : mem'[a].next # a
                 /\ left # {} => b \notin ListSetAfter
                 /\ right # {} => (b + sz) \notin ListSetAfter]_vars

\* C32 witness: a block between two free blocks has been freed and the
\* three have become one, next to a block still handed out.
C32_Witness ==
    /\ last.op = "Free" /\ last.arg # NULL
    /\ Len(FreeBlocks(Heap)) = last.blocks0 - 1
    /\ allocated # {}

\* C33: the sentinels never change: head.size and tail.size are 0,
\* tail.next is null, the tail stays where construction put it and ends
\* the list; a free block that ends at the tail is linked to it and none
\* reaches beyond it; the lowest block is never merged into head.
C33_SentinelsFixed ==
    /\ mem[HeadAddr].size = 0
    /\ _tail_element = Heap4(buffer.begin, buffer.size).tail
    /\ mem[_tail_element] = [next |-> NULL, size |-> 0]
    /\ ListNodes(Heap)[1] = HeadAddr
    /\ ListNodes(Heap)[Len(ListNodes(Heap))] = _tail_element
    /\ \A f \in FreeSet :
          /\ f >= HeapStart
          /\ f + mem[f].size <= _tail_element
          /\ f + mem[f].size = _tail_element => mem[f].next = _tail_element

\* C33 witness: the block in front of the tail has been freed and is linked
\* to the tail, and the lowest block is free as well, next to a held block.
C33_Witness ==
    /\ last.op = "Free" /\ last.arg # NULL
    /\ (last.arg - H) \in FreeSet
    /\ (last.arg - H) + mem[last.arg - H].size = _tail_element
    /\ HeapStart \in FreeSet
    /\ allocated # {}

\* C34: xNumberOfSuccessfulAllocations goes up by one on each Malloc that
\* returns a block (the one Calloc makes included) and on nothing else,
\* xNumberOfSuccessfulFrees by one on each Free that returns a block to the
\* list and on nothing else; the frees never exceed the allocations and
\* the difference is the number of blocks handed out.
C34_Counters ==
    [][/\ xNumberOfSuccessfulAllocations' = xNumberOfSuccessfulAllocations
             + (IF last'.op \in {"Malloc", "Calloc"} /\ last'.ret # NULL THEN 1 ELSE 0)
       /\ xNumberOfSuccessfulFrees' = xNumberOfSuccessfulFrees
             + (IF last'.op = "Free" /\ last'.arg # NULL THEN 1 ELSE 0)
       /\ (last'.op = "Free" /\ last'.arg # NULL)
             => \E f \in FreeSetAfter :
                   /\ f <= last'.arg - H
                   /\ last'.arg - H + ClearAllocatedBit(mem[last'.arg - H].size)
                         <= f + mem'[f].size
       /\ xNumberOfSuccessfulFrees' <= xNumberOfSuccessfulAllocations'
       /\ xNumberOfSuccessfulAllocations' - xNumberOfSuccessfulFrees'
             = Cardinality(allocated')]_vars

\* C34 witness: after failed and successful calls of every kind, two frees
\* and more allocations have been counted.
C34_Witness ==
    /\ last.op = "Free" /\ last.arg = NULL
    /\ xNumberOfSuccessfulFrees >= 2
    /\ xNumberOfSuccessfulAllocations > xNumberOfSuccessfulFrees

\* C35: blocks are split only by Malloc and merged only by Free: a Malloc
\* that splits adds one block boundary, right behind the block handed out,
\* and leaves the number of free blocks unchanged, the block split off
\* keeping exactly the leftover size; a Malloc that does not split lowers
\* the number of free blocks by one and changes no boundary; Free only
\* removes boundaries; GetHeapStats and failed calls change none.
C35_SplitOnlyMallocMergeOnlyFree ==
    [][/\ (last'.op = "Malloc" /\ last'.ret # NULL)
            => LET b == last'.ret - H
                   got == ClearAllocatedBit(mem'[b].size)
               IN  IF got < mem[b].size
                   THEN /\ Len(FreeBlocks(HeapAfter)) = Len(FreeBlocks(Heap))
                        /\ AllBlocksAfter = AllBlocks \cup {b + got}
                        /\ (b + got) \notin AllBlocks
                        /\ mem'[b + got].size = mem[b].size - got
                   ELSE /\ Len(FreeBlocks(HeapAfter)) = Len(FreeBlocks(Heap)) - 1
                        /\ AllBlocksAfter = AllBlocks
       /\ last'.op = "Free"
            => /\ AllBlocksAfter \subseteq AllBlocks
               /\ Len(FreeBlocks(HeapAfter)) <= Len(FreeBlocks(Heap)) + 1
       /\ (last'.op \notin {"Free", "Malloc", "Calloc"} \/ (last'.op # "Free" /\ last'.ret = NULL))
            => AllBlocksAfter = AllBlocks]_vars

\* C35 witness: Malloc has split a free block that lies right behind
\* another free block's neighbour, leaving three free blocks.
C35_Witness ==
    /\ last.op = "Malloc" /\ last.ret # NULL
    /\ Len(FreeBlocks(Heap)) = last.blocks0
    /\ last.blocks0 >= 2
    /\ (last.ret - H + Adjusted(last.arg)) \in FreeSet
RECURSIVE C37_SumOfSizes(_)
\* The sum of the sizes recorded in a set of blocks.
C37_SumOfSizes(S) ==
    IF S = {} THEN 0
    ELSE LET b == CHOOSE x \in S : TRUE
         IN  ClearAllocatedBit(mem[b].size) + C37_SumOfSizes(S \ {b})

\* C37: the blocks handed out and the free blocks tile the region from the
\* aligned start to the tail, without gap or overlap, and the sizes of the
\* blocks handed out plus xFreeBytesRemaining are the free size fixed at
\* construction.
C37_BlocksTileRegion ==
    /\ UNION {Region(b) : b \in AllBlocks} = HeapStart .. (_tail_element - 1)
    /\ \A b1, b2 \in AllBlocks : b1 # b2 => Region(b1) \cap Region(b2) = {}
    /\ FreeSet \cap LiveBlocks = {}
    /\ C37_SumOfSizes(LiveBlocks) + xFreeBytesRemaining = InitialFree

\* C37 witness: held and free blocks alternate: two held and two free
\* blocks, the last call a successful Malloc after a Free.
C37_Witness ==
    /\ Cardinality(LiveBlocks) >= 2
    /\ Len(FreeBlocks(Heap)) >= 2
    /\ last.op = "Malloc" /\ last.ret # NULL
    /\ xNumberOfSuccessfulFrees >= 1

\* C40: a successful Calloc on the second heap returns a pointer inside
\* that heap's buffer, lowers that heap's xFreeBytesRemaining and leaves
\* the default heap as it was.
C40_CallocFromOwnInstance ==
    [][(last'.op = "Other.Calloc" /\ last'.ret # NULL /\ last' # last)
          => /\ last'.ret \in OtherBufAddr .. (OtherBufAddr + OtherBufSize - 1)
             /\ other'.free < other.free
             /\ HeapAfter = Heap]_vars
\* C38 as stated: every result GetHeapStats returns is a snapshot of one
\* heap state, also next to a task that allocates and frees: the largest
\* free block is at most the available bytes, and no free block means no
\* available bytes.
C38_OneSnapshot ==
    last.op = "GetHeapStats"
        => /\ last.stats.xSizeOfLargestFreeBlockInBytes
                 <= last.stats.xAvailableHeapSpaceInBytes
           /\ last.stats.xNumberOfFreeBlocks = 0
                 => last.stats.xAvailableHeapSpaceInBytes = 0

\* C38, amended: the result is two snapshots, each of one heap state. The
\* walk runs with the scheduler suspended and its three values are those
\* of the free list at that moment, when xFreeBytesRemaining is the sum of
\* the sizes counted; the four counters are the values at the later
\* critical section, and the result carries both unchanged.
C38_TwoSnapshots ==
    [][/\ (task[StatsCaller].pc = "G_scan" /\ task'[StatsCaller].pc # "G_scan")
            => /\ uxSchedulerSuspended = 1
               /\ task'[StatsCaller].acc.xBlocks = Cardinality(FreeSet)
               /\ task'[StatsCaller].acc.xMaxSize =
                     (IF FreeSet = {} THEN 0
                      ELSE CHOOSE x \in FreeSizes : \A y \in FreeSizes : y <= x)
               /\ task'[StatsCaller].acc.xMinSize =
                     (IF FreeSet = {} THEN portMAX_DELAY
                      ELSE CHOOSE x \in FreeSizes : \A y \in FreeSizes : x <= y)
               /\ xFreeBytesRemaining = C37_SumOfSizes(FreeSet)
               /\ task'[StatsCaller].acc.xMaxSize <= xFreeBytesRemaining
               /\ task'[StatsCaller].acc.xBlocks = 0 => xFreeBytesRemaining = 0
       /\ (task[StatsCaller].pc = "G_copy" /\ task'[StatsCaller].pc # "G_copy")
            => /\ last'.op = "GetHeapStats"
               /\ last'.stats.xNumberOfFreeBlocks = task[StatsCaller].acc.xBlocks
               /\ last'.stats.xSizeOfLargestFreeBlockInBytes = task[StatsCaller].acc.xMaxSize
               /\ last'.stats.xSizeOfSmallestFreeBlockInBytes = task[StatsCaller].acc.xMinSize
               /\ last'.stats.xAvailableHeapSpaceInBytes = xFreeBytesRemaining
               /\ last'.stats.xNumberOfSuccessfulAllocations = xNumberOfSuccessfulAllocations
               /\ last'.stats.xNumberOfSuccessfulFrees = xNumberOfSuccessfulFrees
               /\ last'.stats.xMinimumEverFreeBytesRemaining = xMinimumEverFreeBytesRemaining]_vars

\* C38 witness: GetHeapStats has returned a result whose walk and whose
\* counters are of different heap states: the other task took a block in
\* between.
C38_Witness ==
    /\ last.op = "GetHeapStats"
    /\ last.stats.xSizeOfLargestFreeBlockInBytes > last.stats.xAvailableHeapSpaceInBytes
    /\ last.stats.xNumberOfSuccessfulAllocations >= 1
\* C39: an allocation or release made by an interrupt handler through
\* operator new or delete never runs between a task's vTaskSuspendAll and
\* xTaskResumeAll, and when it starts xFreeBytesRemaining is the sum of
\* the sizes of the free blocks and no block of the list is held.
C39_HandlerNeverInsideSection ==
    [][(last' # last /\ last'.op \in {"operator new", "operator delete"})
          => /\ uxSchedulerSuspended = 0
             /\ xFreeBytesRemaining = C37_SumOfSizes(FreeSet)
             /\ FreeSet \cap LiveBlocks = {}]_vars
====
